---- MODULE Spec2Model ----
(***************************************************************************)
(* A model of the authorization guard of nestjs-better-auth.               *)
(*                                                                         *)
(* AuthGuard.canActivate is an async function with two suspension points:  *)
(* the session fetch and the organization-role lookup.  Between two        *)
(* suspension points the JavaScript run is atomic, so every action below   *)
(* is one such run: it starts when a provider call settles and ends at the *)
(* next provider call or at the outcome of the invocation.                 *)
(*                                                                         *)
(* JavaScript values are tagged records: [tag |-> "undefined"], "null",    *)
(* "boolean", "string" (a sequence of one-character strings, or the text   *)
(* of a literal of the source), "array", "object", "session", "Headers",   *)
(* "error".                                                                *)
(***************************************************************************)
EXTENDS Integers, Sequences, FiniteSets, TLC

VARIABLES
    pc,                 \* invocation -> "idle" | "awaitSession" | "awaitOrgRole" | "done"
    context,            \* invocation -> the ExecutionContext: type, handler and class metadata
    request,            \* invocation -> the request view: its session and user slots
    outcome,            \* invocation -> what canActivate settled with
    calls,              \* invocation -> number of calls issued to each provider operation
    log,                \* invocation -> the steps of canActivate, in the order they ran
    api,                \* invocation -> the operations the provider exposed when probed
    provided,           \* invocation -> what the provider's calls settled with
    headers,            \* invocation -> the headers passed with each provider call
    thrown,             \* the last error built by AuthContextErrorMap, with its arguments
    matched,            \* matchesRequiredRole applied to one role list in its three forms
    installed,          \* the optional peer packages require() can resolve
    GraphQLErrorClass,  \* module-level cache of getGraphQLError
    WsException,        \* module-level cache of getWsException
    nest,               \* the AuthModule as Nest built it: options, middlewares, hooks
    served              \* the last request run through the middlewares or the hooks

vars == <<pc, context, request, outcome, calls, log, api, provided, headers, thrown,
          matched, installed, GraphQLErrorClass, WsException, nest, served>>

----------------------------------------------------------------------------
(* JavaScript values *)

Undefined == [tag |-> "undefined"]
Null == [tag |-> "null"]
Bool(b) == [tag |-> "boolean", val |-> b]
Str(chars) == [tag |-> "string", chars |-> chars]
Arr(items) == [tag |-> "array", items |-> items]

\* a string literal of the source
Literal(text) == [tag |-> "string", text |-> text]

\* typeof v
TypeOf(v) ==
    CASE v.tag = "undefined" -> "undefined"
      [] v.tag = "boolean" -> "boolean"
      [] v.tag = "string" -> "string"
      [] v.tag = "function" -> "function"
      [] OTHER -> "object"

\* a ?? b
Coalesce(a, b) == IF a.tag \in {"undefined", "null"} THEN b ELSE a

\* MessageOf that never finds a message
MessageOfNone(o) == [tag |-> "undefined"]

\* o?.message
MessageOf(o) ==
    IF o.tag = "object" /\ "message" \in DOMAIN o THEN o.message
    ELSE [tag |-> "undefined"]

\* if (v) ... : undefined, null, false and "" are falsy; arrays and objects are truthy
Truthy(v) ==
    CASE v.tag = "undefined" -> FALSE
      [] v.tag = "null" -> FALSE
      [] v.tag = "boolean" -> v.val
      [] v.tag = "string" -> IF "chars" \in DOMAIN v THEN Len(v.chars) > 0
                             ELSE v.text # ""
      [] OTHER -> TRUE

\* a || b
Or(a, b) == IF Truthy(a) THEN a ELSE b

Whitespace == {" "}

RECURSIVE TrimStart(_)
TrimStart(s) ==
    IF s # <<>> /\ Head(s) \in Whitespace THEN TrimStart(Tail(s)) ELSE s

RECURSIVE TrimEnd(_)
TrimEnd(s) ==
    IF s # <<>> /\ s[Len(s)] \in Whitespace
    THEN TrimEnd(SubSeq(s, 1, Len(s) - 1))
    ELSE s

\* String.prototype.trim
Trim(s) == TrimEnd(TrimStart(s))

\* String.prototype.split(","): the pieces between the commas, empty pieces kept
RECURSIVE Split(_)
Split(s) ==
    IF \A k \in 1..Len(s) : s[k] # ","
    THEN <<s>>
    ELSE LET k == CHOOSE j \in 1..Len(s) :
                      s[j] = "," /\ \A m \in 1..(j - 1) : s[m] # ","
         IN  <<SubSeq(s, 1, k - 1)>> \o Split(SubSeq(s, k + 1, Len(s)))

\* Array.prototype.includes on an array of strings
Includes(items, x) == \E k \in 1..Len(items) : items[k] = x

----------------------------------------------------------------------------
(* Role matching *)

\* AuthGuard.matchesRequiredRole with the comma-separated pieces left untrimmed
matchesRequiredRoleNoTrim(role, requiredRoles) ==
    IF ~Truthy(role) THEN FALSE
    ELSE IF role.tag = "array"
         THEN \E k \in 1..Len(role.items) : Includes(requiredRoles, role.items[k])
    ELSE IF role.tag = "string"
         THEN LET parts == Split(role.chars)
              IN  \E k \in 1..Len(parts) : Includes(requiredRoles, parts[k])
    ELSE FALSE

\* AuthGuard.matchesRequiredRole
matchesRequiredRole(role, requiredRoles) ==
    IF ~Truthy(role) THEN FALSE
    ELSE IF role.tag = "array"
         THEN \E k \in 1..Len(role.items) : Includes(requiredRoles, role.items[k])
    ELSE IF role.tag = "string"
         THEN LET parts == Split(role.chars)
              IN  \E k \in 1..Len(parts) : Includes(requiredRoles, Trim(parts[k]))
    ELSE FALSE

\* AuthGuard.checkUserRole: user.role only
checkUserRole(session, requiredRoles) ==
    matchesRequiredRole(session.user.role, requiredRoles)

----------------------------------------------------------------------------
(* Error mapping *)

GraphQLRequired == "graphql is required for GraphQL support"
WebsocketsRequired == "@nestjs/websockets is required for WebSocket support"

\* getGraphQLError: the cached class, else require("graphql")
getGraphQLError == GraphQLErrorClass \/ "graphql" \in installed

\* getWsException: the cached class, else require("@nestjs/websockets")
getWsException == WsException \/ "@nestjs/websockets" \in installed

Error(class, message) == [tag |-> "error", class |-> class, message |-> message]

\* new UnauthorizedException(response) / new ForbiddenException(response)
HttpException(kind, response) ==
    IF kind = "UNAUTHORIZED"
    THEN [tag |-> "error", class |-> "UnauthorizedException", status |-> 401,
          response |-> response]
    ELSE [tag |-> "error", class |-> "ForbiddenException", status |-> 403,
          response |-> response]

\* the default body of the http errors
HttpBody(kind) ==
    IF kind = "UNAUTHORIZED"
    THEN [tag |-> "object", code |-> Literal("UNAUTHORIZED"),
          message |-> Literal("Unauthorized")]
    ELSE [tag |-> "object", code |-> Literal("FORBIDDEN"),
          message |-> Literal("Insufficient permissions")]

\* the default message of the graphql errors
GraphQLMessage(kind) ==
    IF kind = "UNAUTHORIZED" THEN Literal("Unauthorized") ELSE Literal("Forbidden")

\* AuthContextErrorMap[ctxType][kind](args); the guard calls it without arguments
AuthContextErrorMap(ctxType, kind, args) ==
    CASE ctxType = "http" -> HttpException(kind, Coalesce(args, HttpBody(kind)))
      [] ctxType = "graphql" ->
            IF ~getGraphQLError THEN Error("Error", Literal(GraphQLRequired))
            ELSE IF TypeOf(args) = "string" THEN Error("GraphQLError", args)
            ELSE IF TypeOf(args) = "object"
                 THEN [tag |-> "error", class |-> "GraphQLError",
                       message |-> Coalesce(MessageOf(args), GraphQLMessage(kind)),
                       options |-> args]
            ELSE Error("GraphQLError", GraphQLMessage(kind))
      [] ctxType = "ws" ->
            IF getWsException
            THEN Error("WsException", Coalesce(args, Literal(kind)))
            ELSE Error("Error", Literal(WebsocketsRequired))
      [] ctxType = "rpc" -> Error("Error", Literal(kind))
      [] OTHER -> Error("TypeError", Literal("Cannot read properties of undefined"))

\* the module-level caches after AuthContextErrorMap[ctxType][kind]() ran
GraphQLErrorClassAfter(ctxType) ==
    GraphQLErrorClass \/ (ctxType = "graphql" /\ "graphql" \in installed)

WsExceptionAfter(ctxType) ==
    WsException \/ (ctxType = "ws" /\ "@nestjs/websockets" \in installed)

----------------------------------------------------------------------------
(* Policy annotations *)

MetadataKeys == {"PUBLIC", "OPTIONAL", "ROLES", "ORG_ROLES"}

\* getAllAndOverride falling through to the class on any falsy or empty handler
\* value
getAllAndOverrideTruthy(key, ctx) ==
    IF Truthy(ctx.handler[key]) /\ ctx.handler[key] # Arr(<<>>)
    THEN ctx.handler[key]
    ELSE ctx.class[key]

\* Reflector.getAllAndOverride(key, [handler, class]): the first target whose
\* metadata for the key is not undefined
getAllAndOverride(key, ctx) ==
    IF ctx.handler[key] # Undefined THEN ctx.handler[key] ELSE ctx.class[key]

\* if (requiredRoles && requiredRoles.length > 0)
NonEmptyList(v) == Truthy(v) /\ v.tag = "array" /\ Len(v.items) > 0

----------------------------------------------------------------------------
(* The request view and its headers *)

\* the request view: an http request, the request of a GraphQL context, or a
\* websocket client
ViewOf(nodeHeaders, handshake) ==
    [tag |-> "object", headers |-> nodeHeaders, handshake |-> handshake,
     session |-> Undefined, user |-> Undefined]

\* IncomingHttpHeaders: the session cookie, or no cookie
NodeHeaders(cookie) == [tag |-> "object", cookie |-> cookie]

\* a websocket client's handshake
HandshakeOf(nodeHeaders) == [tag |-> "object", headers |-> nodeHeaders]

\* getRequestFromContext: getContext().req of the GraphQL context, else the
\* handler's first argument (switchToWs().getClient(), switchToHttp().getRequest())
getRequestFromContext(ctx) ==
    IF ctx.type = "graphql" THEN ctx.gqlReq ELSE ctx.arg0

\* request?.handshake?.headers
HandshakeHeaders(req) ==
    IF Truthy(req.handshake) THEN req.handshake.headers ELSE Undefined

\* request.headers || request?.handshake?.headers || []
RequestHeaders(req) == Or(Or(req.headers, HandshakeHeaders(req)), Arr(<<>>))

\* better-auth's fromNodeHeaders: a Headers object with every entry of the node
\* headers whose value is not undefined; Headers.get gives null for the others
fromNodeHeaders(nodeHeaders) ==
    [tag |-> "Headers",
     cookie |-> IF nodeHeaders.tag = "object" /\ nodeHeaders.cookie # Undefined
                THEN nodeHeaders.cookie
                ELSE Null]

----------------------------------------------------------------------------
(* AuthGuard.canActivate *)

Pending == [tag |-> "pending"]
Resolved(v) == [tag |-> "resolved", value |-> v]
Rejected(e) == [tag |-> "rejected", error |-> e]

\* what a provider call rejects with
ProviderError(operation) == Error("ProviderError", Literal(operation))

\* UserOf without the null default: request.user = session?.user
UserOfNoDefault(session) == IF Truthy(session) THEN session.user ELSE Undefined

\* request.user = session?.user ?? null
UserOf(session) == IF Truthy(session) THEN session.user ELSE Null

\* AttachSession that leaves the user slot for later
AttachSessionOnly(req, session) == [req EXCEPT !.session = session]

\* AttachSession that writes the slots only when a session came back
AttachSessionIfPresent(req, session) ==
    IF Truthy(session)
    THEN [req EXCEPT !.session = session, !.user = session.user]
    ELSE req

\* request.session = session; request.user = session?.user ?? null
AttachSession(req, session) ==
    [req EXCEPT !.session = session, !.user = UserOf(session)]

\* IsPublic reading the handler's annotation only
IsPublicHandlerOnly(ctx) == Truthy(ctx.handler["PUBLIC"])

\* if (isPublic) return true
IsPublic(ctx) == Truthy(getAllAndOverride("PUBLIC", ctx))

\* AllowsAnonymous with the isOptional test dropped
AllowsAnonymousAlways(ctx, session) == ~Truthy(session)

\* AllowsAnonymous with the session test dropped
AllowsAnonymousNever(ctx, session) == FALSE

\* if (!session && isOptional) return true
AllowsAnonymous(ctx, session) ==
    ~Truthy(session) /\ Truthy(getAllAndOverride("OPTIONAL", ctx))

\* FailsUserRole with the system-role check skipped on optional handlers
FailsUserRoleUnlessOptional(ctx, session) ==
    LET requiredRoles == getAllAndOverride("ROLES", ctx)
    IN  /\ ~Truthy(getAllAndOverride("OPTIONAL", ctx))
        /\ NonEmptyList(requiredRoles)
        /\ ~checkUserRole(session, requiredRoles.items)

\* FailsUserRole with the result of checkUserRole ignored
FailsUserRoleNever(ctx, session) == FALSE

\* if (requiredRoles && requiredRoles.length > 0) { hasRole = checkUserRole(...) }
FailsUserRole(ctx, session) ==
    LET requiredRoles == getAllAndOverride("ROLES", ctx)
    IN  NonEmptyList(requiredRoles) /\ ~checkUserRole(session, requiredRoles.items)

\* NeedsOrgRole as an alternative to the system-role check, not an addition to it
NeedsOrgRoleUnlessRoles(ctx) ==
    /\ NonEmptyList(getAllAndOverride("ORG_ROLES", ctx))
    /\ ~NonEmptyList(getAllAndOverride("ROLES", ctx))

\* NeedsOrgRole without the length test: if (requiredOrgRoles)
NeedsOrgRoleDeclared(ctx) == Truthy(getAllAndOverride("ORG_ROLES", ctx))

\* if (requiredOrgRoles && requiredOrgRoles.length > 0)
NeedsOrgRole(ctx) == NonEmptyList(getAllAndOverride("ORG_ROLES", ctx))

\* HasActiveOrg without the early return
HasActiveOrgUnchecked(session) == TRUE

\* checkOrgRole: const activeOrgId = session.session?.activeOrganizationId;
\* if (!activeOrgId) return false
HasActiveOrg(session) == Truthy(session.session.activeOrganizationId)

\* LookupOperation with the two probes in the other order
LookupOperationMemberFirst(exposed) ==
    IF "getActiveMember" \in exposed THEN "getActiveMember"
    ELSE IF "getActiveMemberRole" \in exposed THEN "getActiveMemberRole"
    ELSE "none"

\* getMemberRoleInOrganization: the provider operation it calls, if any
LookupOperation(exposed) ==
    IF "getActiveMemberRole" \in exposed THEN "getActiveMemberRole"
    ELSE IF "getActiveMember" \in exposed THEN "getActiveMember"
    ELSE "none"

\* return result?.role / return member?.role
RoleOf(result) == IF Truthy(result) THEN result.role ELSE Undefined

\* checkOrgRole without the try/catch: the lookup's error propagates
checkOrgRoleNoCatch(error) == [caught |-> FALSE, value |-> FALSE, error |-> error]

\* checkOrgRole's try/catch around the lookup: console.error, return false
checkOrgRoleCatch(error) == [caught |-> TRUE, value |-> FALSE, error |-> error]

\* The run of canActivate from the settled session fetch to its next suspension
\* point or its end: the steps taken and where the run stops
AfterSession(ctx, session, exposed) ==
    LET s1 == <<"request.session", "request.user", "reflect:PUBLIC">>
        s2 == s1 \o <<"reflect:OPTIONAL">>
        s3 == s2 \o <<"getType">>
        s4 == s3 \o <<"reflect:ROLES">>
        s5 == s4 \o (IF NonEmptyList(getAllAndOverride("ROLES", ctx))
                     THEN <<"checkUserRole">> ELSE <<>>)
        s6 == s5 \o <<"reflect:ORG_ROLES">>
        s7 == s6 \o <<"checkOrgRole">>
    IN  IF IsPublic(ctx) THEN [stop |-> "allow", steps |-> s1]
        ELSE IF AllowsAnonymous(ctx, session) THEN [stop |-> "allow", steps |-> s2]
        ELSE IF ~Truthy(session) THEN [stop |-> "UNAUTHORIZED", steps |-> s3]
        ELSE IF FailsUserRole(ctx, session) THEN [stop |-> "FORBIDDEN", steps |-> s5]
        ELSE IF ~NeedsOrgRole(ctx) THEN [stop |-> "allow", steps |-> s6]
        ELSE IF ~HasActiveOrg(session) THEN [stop |-> "FORBIDDEN", steps |-> s7]
        ELSE IF LookupOperation(exposed) = "none"
             THEN [stop |-> "FORBIDDEN", steps |-> s7 \o <<"probe">>]
        ELSE [stop |-> "lookup",
              steps |-> s7 \o <<"probe", LookupOperation(exposed)>>]

\* canActivate settles: return true, or throw AuthContextErrorMap[ctxType][kind]()
Settle(i, stop) ==
    /\ pc' = [pc EXCEPT ![i] = "done"]
    /\ IF stop = "allow"
       THEN /\ outcome' = [outcome EXCEPT ![i] = Resolved(TRUE)]
            /\ UNCHANGED <<GraphQLErrorClass, WsException>>
       ELSE /\ outcome' = [outcome EXCEPT
                  ![i] = Rejected(AuthContextErrorMap(context[i].type, stop,
                                                      Undefined))]
            /\ GraphQLErrorClass' = GraphQLErrorClassAfter(context[i].type)
            /\ WsException' = WsExceptionAfter(context[i].type)

NoCalls == [getSession |-> 0, getActiveMemberRole |-> 0, getActiveMember |-> 0]

\* no headers passed yet
NotSent == [getSession |-> Undefined, lookup |-> Undefined]

\* canActivate is entered: getRequestFromContext, then getSession is called with
\* the view's headers
Start(i, Contexts) ==
    /\ pc[i] = "idle"
    /\ \E ctx \in Contexts :
         /\ context' = [context EXCEPT ![i] = ctx]
         /\ request' = [request EXCEPT ![i] = getRequestFromContext(ctx)]
         /\ headers' = [headers EXCEPT ![i].getSession =
                fromNodeHeaders(RequestHeaders(getRequestFromContext(ctx)))]
    /\ pc' = [pc EXCEPT ![i] = "awaitSession"]
    /\ calls' = [calls EXCEPT ![i].getSession = @ + 1]
    /\ log' = [log EXCEPT ![i] = @ \o <<"getRequestFromContext", "getSession">>]
    /\ UNCHANGED <<outcome, api, provided, thrown, matched, installed, nest, served,
                   GraphQLErrorClass, WsException>>

\* getSession resolves with a session or null
SessionReturns(i, Sessions, Apis) ==
    /\ pc[i] = "awaitSession"
    /\ \E session \in Sessions, exposed \in Apis :
         LET run == AfterSession(context[i], session, exposed)
         IN  /\ request' = [request EXCEPT ![i] = AttachSession(@, session)]
             /\ provided' = [provided EXCEPT ![i].getSession = session]
             /\ log' = [log EXCEPT ![i] = @ \o run.steps]
             /\ IF run.stop = "lookup"
                THEN /\ pc' = [pc EXCEPT ![i] = "awaitOrgRole"]
                     /\ calls' = [calls EXCEPT
                            ![i][LookupOperation(exposed)] = @ + 1]
                     /\ api' = [api EXCEPT ![i] = exposed]
                     /\ headers' = [headers EXCEPT ![i].lookup =
                            fromNodeHeaders(RequestHeaders(request'[i]))]
                     /\ UNCHANGED <<outcome, GraphQLErrorClass, WsException>>
                ELSE /\ Settle(i, run.stop)
                     /\ api' = [api EXCEPT ![i] =
                            IF "probe" \in {run.steps[k] : k \in 1..Len(run.steps)}
                            THEN exposed ELSE @]
                     /\ UNCHANGED <<calls, headers>>
    /\ UNCHANGED <<context, thrown, matched, installed, nest, served>>

\* SessionRaises with one retry of getSession before giving up
SessionRaisesRetry(i) ==
    /\ pc[i] = "awaitSession"
    /\ IF calls[i].getSession < 2
       THEN /\ calls' = [calls EXCEPT ![i].getSession = @ + 1]
            /\ log' = [log EXCEPT ![i] = @ \o <<"getSession">>]
            /\ UNCHANGED <<pc, outcome, provided>>
       ELSE /\ pc' = [pc EXCEPT ![i] = "done"]
            /\ outcome' = [outcome EXCEPT
                   ![i] = Rejected(ProviderError("getSession"))]
            /\ provided' = [provided EXCEPT
                   ![i].getSession = ProviderError("getSession")]
            /\ UNCHANGED <<calls, log>>
    /\ UNCHANGED <<context, request, api, headers, thrown, matched, installed, nest, served,
                   GraphQLErrorClass, WsException>>

\* SessionRaises that first attaches an empty session to the request view
SessionRaisesAttachingNull(i) ==
    /\ pc[i] = "awaitSession"
    /\ pc' = [pc EXCEPT ![i] = "done"]
    /\ outcome' = [outcome EXCEPT ![i] = Rejected(ProviderError("getSession"))]
    /\ provided' = [provided EXCEPT ![i].getSession = ProviderError("getSession")]
    /\ request' = [request EXCEPT ![i].session = Null, ![i].user = Null]
    /\ log' = [log EXCEPT ![i] = @ \o <<"request.session", "request.user">>]
    /\ UNCHANGED <<context, calls, api, headers, thrown, matched,
                   installed, nest, served, GraphQLErrorClass, WsException>>

\* getSession rejects: canActivate rejects with the same error
SessionRaises(i) ==
    /\ pc[i] = "awaitSession"
    /\ pc' = [pc EXCEPT ![i] = "done"]
    /\ outcome' = [outcome EXCEPT ![i] = Rejected(ProviderError("getSession"))]
    /\ provided' = [provided EXCEPT ![i].getSession = ProviderError("getSession")]
    /\ UNCHANGED <<context, request, calls, log, api, headers, thrown, matched,
                   installed, nest, served, GraphQLErrorClass, WsException>>

\* getActiveMemberRole / getActiveMember resolves: the role is matched
OrgLookupReturns(i, Results) ==
    /\ pc[i] = "awaitOrgRole"
    /\ \E result \in Results :
         LET requiredOrgRoles == getAllAndOverride("ORG_ROLES", context[i])
             hasOrgRole == matchesRequiredRole(RoleOf(result), requiredOrgRoles.items)
         IN  /\ log' = [log EXCEPT ![i] = @ \o <<"matchesRequiredRole">>]
             /\ provided' = [provided EXCEPT ![i].member = result]
             /\ Settle(i, IF hasOrgRole THEN "allow" ELSE "FORBIDDEN")
    /\ UNCHANGED <<context, request, calls, api, headers, thrown, matched, installed, nest, served>>

\* getActiveMemberRole / getActiveMember rejects: rethrown by the lookup, caught by
\* checkOrgRole, logged, and turned into "no role"
OrgLookupRaises(i) ==
    /\ pc[i] = "awaitOrgRole"
    /\ provided' = [provided EXCEPT
           ![i].member = ProviderError(LookupOperation(api[i]))]
    /\ LET handled == checkOrgRoleCatch(ProviderError(LookupOperation(api[i])))
       IN  IF handled.caught
           THEN /\ log' = [log EXCEPT ![i] = @ \o <<"console.error">>]
                /\ Settle(i, IF handled.value THEN "allow" ELSE "FORBIDDEN")
           ELSE /\ log' = log
                /\ pc' = [pc EXCEPT ![i] = "done"]
                /\ outcome' = [outcome EXCEPT ![i] = Rejected(handled.error)]
                /\ UNCHANGED <<GraphQLErrorClass, WsException>>
    /\ UNCHANGED <<context, request, calls, api, headers, thrown, matched, installed, nest, served>>

----------------------------------------------------------------------------
(* The inputs of the guard *)

\* role names, as strings
Admin == <<"a">>
Owner == <<"o">>

ContextTypes == {"http", "graphql", "ws", "rpc"}

Peers == {"graphql", "@nestjs/websockets"}

\* <<handler value, class value>> of a boolean annotation (PUBLIC, OPTIONAL)
FlagAnnotations ==
    { <<Undefined, Undefined>>, <<Bool(TRUE), Undefined>>,
      <<Undefined, Bool(TRUE)>>, <<Bool(FALSE), Bool(TRUE)>> }

\* <<handler value, class value>> of a role-list annotation (ROLES, ORG_ROLES)
RoleAnnotations ==
    { <<Undefined, Undefined>>, <<Arr(<<Admin>>), Undefined>>,
      <<Undefined, Arr(<<Owner>>)>>, <<Arr(<<Owner, Admin>>), Arr(<<Owner>>)>>,
      <<Arr(<<>>), Arr(<<Admin>>)>> }

\* the session cookie of a client
Cookie == Str(<<"s">>)

\* the view a transport gives: headers on the request; on the handshake for a
\* websocket client
DefaultView(type) ==
    IF type = "ws" THEN ViewOf(Undefined, HandshakeOf(NodeHeaders(Cookie)))
    ELSE ViewOf(NodeHeaders(Cookie), Undefined)

\* an ExecutionContext whose transport gives the view
ContextWith(type, view, public, optional, roles, orgRoles) ==
    [type |-> type,
     arg0 |-> IF type = "graphql" THEN Undefined ELSE view,
     gqlReq |-> IF type = "graphql" THEN view ELSE Undefined,
     handler |-> [PUBLIC |-> public[1], OPTIONAL |-> optional[1],
                  ROLES |-> roles[1], ORG_ROLES |-> orgRoles[1]],
     class |-> [PUBLIC |-> public[2], OPTIONAL |-> optional[2],
                ROLES |-> roles[2], ORG_ROLES |-> orgRoles[2]]]

ContextOf(type, public, optional, roles, orgRoles) ==
    ContextWith(type, DefaultView(type), public, optional, roles, orgRoles)

Contexts ==
    { ContextOf(type, public, optional, roles, orgRoles) :
        type \in ContextTypes, public \in FlagAnnotations,
        optional \in FlagAnnotations, roles \in RoleAnnotations,
        orgRoles \in RoleAnnotations }

NoContext ==
    ContextWith("none", ViewOf(Undefined, Undefined),
                <<Undefined, Undefined>>, <<Undefined, Undefined>>,
                <<Undefined, Undefined>>, <<Undefined, Undefined>>)

\* a UserSession: user.role and session.activeOrganizationId are optional
SessionOf(role, activeOrganizationId) ==
    [tag |-> "session",
     user |-> [tag |-> "object", role |-> role],
     session |-> [tag |-> "object", activeOrganizationId |-> activeOrganizationId]]

\* user.role: string | string[] | undefined
UserRoles ==
    { Undefined, Str(<<>>), Str(Admin), Str(<<"o", ",", " ", "a">>),
      Arr(<<>>), Arr(<<Admin>>), Arr(<<Owner, Admin>>), Arr(<<<<" ", "a">>>>) }

ActiveOrganizationIds == { Undefined, Str(<<>>), Str(<<"x">>) }

Sessions ==
    { Null } \cup { SessionOf(role, org) :
                      role \in UserRoles, org \in ActiveOrganizationIds }

\* what getActiveMemberRole / getActiveMember resolve with
MemberOf(role) == [tag |-> "object", role |-> role]

LookupResults ==
    { Undefined, Null, MemberOf(Undefined), MemberOf(Str(Owner)),
      MemberOf(Str(Admin)), MemberOf(Str(<<"a", ",", " ", "o">>)) }

\* the organization operations the provider may expose
Apis == SUBSET {"getActiveMemberRole", "getActiveMember"}

----------------------------------------------------------------------------
(* Specification *)

Invocations == {"i1"}

NotMatched == [applied |-> FALSE]

NotThrown == [applied |-> FALSE]

NotCreated == [phase |-> "none"]

NotServed == [applied |-> FALSE]

InitOver(I, peers) ==
    /\ pc = [i \in I |-> "idle"]
    /\ context = [i \in I |-> NoContext]
    /\ request = [i \in I |-> ViewOf(Undefined, Undefined)]
    /\ outcome = [i \in I |-> Pending]
    /\ calls = [i \in I |-> NoCalls]
    /\ log = [i \in I |-> <<>>]
    /\ api = [i \in I |-> {}]
    /\ provided = [i \in I |-> [getSession |-> Pending, member |-> Pending]]
    /\ headers = [i \in I |-> NotSent]
    /\ thrown = NotThrown
    /\ installed = peers
    /\ matched = NotMatched
    /\ GraphQLErrorClass = FALSE
    /\ WsException = FALSE
    /\ nest = NotCreated
    /\ served = NotServed

Init == InitOver(Invocations, Peers)

Next ==
    \E i \in Invocations :
        \/ Start(i, Contexts)
        \/ SessionReturns(i, Sessions, Apis)
        \/ SessionRaises(i)
        \/ OrgLookupReturns(i, LookupResults)
        \/ OrgLookupRaises(i)

Spec == Init /\ [][Next]_vars

----------------------------------------------------------------------------
(* The policy and the errors as the specification words them *)

\* "handler value wins; otherwise class value; otherwise absent"
Annotation(key, ctx) ==
    IF ctx.handler[key].tag # "undefined" THEN ctx.handler[key] ELSE ctx.class[key]

RoleSet(annotation) ==
    IF annotation.tag = "array"
    THEN {annotation.items[k] : k \in 1..Len(annotation.items)}
    ELSE {}

PolicyOf(ctx) ==
    [isPublic |-> Annotation("PUBLIC", ctx) = Bool(TRUE),
     isOptional |-> Annotation("OPTIONAL", ctx) = Bool(TRUE),
     requiredRoles |-> RoleSet(Annotation("ROLES", ctx)),
     requiredOrgRoles |-> RoleSet(Annotation("ORG_ROLES", ctx))]

\* the transport's error for an error kind, with the default detail
TransportError(type, kind) ==
    CASE type = "http" /\ kind = "UNAUTHORIZED" ->
            [tag |-> "error", class |-> "UnauthorizedException", status |-> 401,
             response |-> [tag |-> "object", code |-> Literal("UNAUTHORIZED"),
                           message |-> Literal("Unauthorized")]]
      [] type = "http" /\ kind = "FORBIDDEN" ->
            [tag |-> "error", class |-> "ForbiddenException", status |-> 403,
             response |-> [tag |-> "object", code |-> Literal("FORBIDDEN"),
                           message |-> Literal("Insufficient permissions")]]
      [] type = "graphql" /\ kind = "UNAUTHORIZED" ->
            [tag |-> "error", class |-> "GraphQLError",
             message |-> Literal("Unauthorized")]
      [] type = "graphql" /\ kind = "FORBIDDEN" ->
            [tag |-> "error", class |-> "GraphQLError",
             message |-> Literal("Forbidden")]
      [] type = "ws" ->
            [tag |-> "error", class |-> "WsException", message |-> Literal(kind)]
      [] type = "rpc" ->
            [tag |-> "error", class |-> "Error", message |-> Literal(kind)]

Allowed(i) == outcome[i] = Resolved(TRUE)
Denied(i, kind) == outcome[i] = Rejected(TransportError(context[i].type, kind))

\* getSession resolved, with a session or with null
SessionFetched(i) == provided[i].getSession.tag \in {"null", "session"}
NoSession(i) == provided[i].getSession = Null
HasSession(i) == provided[i].getSession.tag = "session"

----------------------------------------------------------------------------
(* Claims *)

\* C1: on every transport kind, an invocation of a handler that is neither public
\* nor optional, for which getSession returned no session, ends with the
\* transport's UNAUTHORIZED error and never with "allow", whatever the required
\* roles and organization roles are.
C1_NoSessionUnauthorized ==
    \A i \in DOMAIN pc :
        (/\ NoSession(i)
         /\ ~PolicyOf(context[i]).isPublic
         /\ ~PolicyOf(context[i]).isOptional)
        => /\ pc[i] = "done"
           /\ Denied(i, "UNAUTHORIZED")
           /\ ~Allowed(i)

C1_Witness ==
    \E i \in DOMAIN pc :
        /\ NoSession(i)
        /\ context[i].type = "ws"
        /\ ~PolicyOf(context[i]).isPublic
        /\ ~PolicyOf(context[i]).isOptional
        /\ PolicyOf(context[i]).requiredRoles # {}
        /\ PolicyOf(context[i]).requiredOrgRoles # {}
        /\ Denied(i, "UNAUTHORIZED")

\* C2: an invocation of a public handler (PUBLIC on the handler or on its class) is
\* allowed as soon as getSession has returned, with or without a session and
\* whatever the other annotations are; and with a session, the request view holds
\* that session and its user when the decision is returned.
C2_PublicAllowed ==
    \A i \in DOMAIN pc :
        (SessionFetched(i) /\ PolicyOf(context[i]).isPublic)
        => /\ pc[i] = "done"
           /\ Allowed(i)
           /\ HasSession(i) =>
                /\ request[i].session = provided[i].getSession
                /\ request[i].user = provided[i].getSession.user

C2_Witness ==
    \E i \in DOMAIN pc :
        /\ HasSession(i)
        /\ context[i].handler["PUBLIC"] = Undefined
        /\ PolicyOf(context[i]).isPublic
        /\ PolicyOf(context[i]).requiredRoles # {}
        /\ PolicyOf(context[i]).requiredOrgRoles # {}
        /\ provided[i].getSession.user.role = Undefined
        /\ Allowed(i)
        /\ request[i].session = provided[i].getSession

\* C3: an invocation of an optional handler for which getSession returned no session
\* is allowed, and the request view then has session = null and user = null.
C3_OptionalAnonymousAllowed ==
    \A i \in DOMAIN pc :
        (NoSession(i) /\ PolicyOf(context[i]).isOptional)
        => /\ pc[i] = "done"
           /\ Allowed(i)
           /\ request[i].session = Null
           /\ request[i].user = Null

C3_Witness ==
    \E i \in DOMAIN pc :
        /\ NoSession(i)
        /\ PolicyOf(context[i]).isOptional
        /\ ~PolicyOf(context[i]).isPublic
        /\ Allowed(i)
        /\ request[i].user = Null

----------------------------------------------------------------------------
(* matchesRequiredRole on the three forms of one role value *)

MaxListLen == 2
MaxElemLen == 2

\* the characters of a role string: role letters and whitespace
RoleChars == {"a", "o", " "}

RECURSIVE SeqsUpTo(_, _)
SeqsUpTo(S, n) ==
    IF n = 0 THEN {<<>>}
    ELSE LET shorter == SeqsUpTo(S, n - 1)
         IN  shorter \cup {Append(s, x) : s \in shorter, x \in S}

RoleStrings == SeqsUpTo(RoleChars, MaxElemLen)
RoleLists == SeqsUpTo(RoleStrings, MaxListLen)
RequiredLists == {<<Admin>>, <<Owner>>, <<Owner, Admin>>}

\* Array.prototype.join(",")
RECURSIVE Join(_)
Join(list) ==
    IF list = <<>> THEN <<>>
    ELSE IF Len(list) = 1 THEN list[1]
    ELSE list[1] \o <<",">> \o Join(Tail(list))

\* matchesRequiredRole(role, requiredRoles) for role = list, role = list.join(","),
\* and role = list[0]
MatchForms ==
    \E list \in RoleLists, requiredRoles \in RequiredLists :
        /\ ~matched.applied
        /\ matched' =
             [applied |-> TRUE, list |-> list, requiredRoles |-> requiredRoles,
              asList |-> matchesRequiredRole(Arr(list), requiredRoles),
              asString |-> matchesRequiredRole(Str(Join(list)), requiredRoles),
              asSingle |-> IF list = <<>> THEN FALSE
                           ELSE matchesRequiredRole(Str(list[1]), requiredRoles)]
        /\ UNCHANGED <<pc, context, request, outcome, calls, log, api, provided,
                       headers, thrown, installed, nest, served, GraphQLErrorClass, WsException>>

SpecMatch == InitOver({}, Peers) /\ [][MatchForms]_vars

----------------------------------------------------------------------------
(* Claims on role matching *)

\* the granted roles of a role value, whatever its form: every string is split on
\* commas and each piece trimmed; an absent or empty value grants nothing
Pieces(chars) == {Trim(Split(chars)[k]) : k \in 1..Len(Split(chars))}

NormalizedSet(role) ==
    CASE role.tag = "string" -> IF role.chars = <<>> THEN {} ELSE Pieces(role.chars)
      [] role.tag = "array" ->
            UNION {Pieces(role.items[k]) : k \in 1..Len(role.items)}
      [] OTHER -> {}

\* the run went past the system-role check
PassedUserRoleCheck(i) == \E k \in 1..Len(log[i]) : log[i][k] = "reflect:ORG_ROLES"

\* C4: on a non-public handler with a non-empty required-role set R and a session
\* present, the system-role check passes if and only if the normalized set of
\* user.role (strings split on commas and trimmed) intersects R, and when it does
\* not pass the invocation ends with FORBIDDEN.
C4_RoleCheckIffNormalizedIntersects ==
    \A i \in DOMAIN pc :
        (/\ HasSession(i)
         /\ ~PolicyOf(context[i]).isPublic
         /\ PolicyOf(context[i]).requiredRoles # {})
        => LET granted == NormalizedSet(provided[i].getSession.user.role)
               intersects == granted \cap PolicyOf(context[i]).requiredRoles # {}
           IN  /\ intersects <=> PassedUserRoleCheck(i)
               /\ ~intersects => (pc[i] = "done" /\ Denied(i, "FORBIDDEN"))

\* C5: matchesRequiredRole gives the same result for a list of role strings, for the
\* list joined with commas into one string, and, for a one-element list, for that
\* element as a single string.
C5_ThreeFormsEquivalent ==
    matched.applied =>
        /\ matched.asList = matched.asString
        /\ Len(matched.list) = 1 => matched.asSingle = matched.asList

----------------------------------------------------------------------------
(* The guard on organization roles of every spelling *)

MaxRoleLen == 3

\* the characters of a member role as the provider stores it
MemberRoleChars == {"a", "o", ",", " "}

MemberRoleStrings == SeqsUpTo(MemberRoleChars, MaxRoleLen)

\* every handler and transport, as in Spec
OrgRoleContexts == Contexts

OrgRoleSessions ==
    { Null, SessionOf(Str(Admin), Undefined), SessionOf(Str(Admin), Str(<<"x">>)) }

OrgRoleLookupResults ==
    { Undefined, Null, MemberOf(Undefined) }
        \cup { MemberOf(Str(chars)) : chars \in MemberRoleStrings }

NextOrgRoles ==
    \E i \in Invocations :
        \/ Start(i, OrgRoleContexts)
        \/ SessionReturns(i, OrgRoleSessions, Apis)
        \/ SessionRaises(i)
        \/ OrgLookupReturns(i, OrgRoleLookupResults)
        \/ OrgLookupRaises(i)

SpecOrgRoles == Init /\ [][NextOrgRoles]_vars

----------------------------------------------------------------------------
(* Claims on organization roles *)

LookupCalls(i) == calls[i].getActiveMemberRole + calls[i].getActiveMember

ActiveOrganizationId(i) == provided[i].getSession.session.activeOrganizationId

\* the organization-role check ran to its end: checkOrgRole was entered with an
\* active organization, and the lookup it awaited, if any, resolved
OrgRoleLookedUp(i) ==
    /\ pc[i] = "done"
    /\ \E k \in 1..Len(log[i]) : log[i][k] = "probe"
    /\ provided[i].member.tag # "error"

\* the role the lookup returned: the result's role, or no role
LookedUpRole(i) ==
    IF provided[i].member.tag = "object" THEN provided[i].member.role ELSE Undefined

\* C6 as stated: on every handler with non-empty required organization roles, an
\* invocation whose session has no activeOrganizationId ends with FORBIDDEN and
\* issues no organization-role lookup call.
C6_NoActiveOrgForbidden ==
    \A i \in DOMAIN pc :
        (/\ HasSession(i)
         /\ PolicyOf(context[i]).requiredOrgRoles # {}
         /\ ActiveOrganizationId(i) = Undefined)
        => /\ pc[i] = "done"
           /\ Denied(i, "FORBIDDEN")
           /\ LookupCalls(i) = 0

\* C6 amended: on every handler that is not public and has non-empty required
\* organization roles, an invocation whose session has no activeOrganizationId
\* ends with FORBIDDEN and issues no organization-role lookup call, even when
\* user.role holds one of the required organization roles.
C6_NoActiveOrgForbiddenUnlessPublic ==
    \A i \in DOMAIN pc :
        (/\ HasSession(i)
         /\ ~PolicyOf(context[i]).isPublic
         /\ PolicyOf(context[i]).requiredOrgRoles # {}
         /\ ActiveOrganizationId(i) = Undefined)
        => /\ pc[i] = "done"
           /\ Denied(i, "FORBIDDEN")
           /\ LookupCalls(i) = 0

C6_Witness ==
    \E i \in DOMAIN pc :
        /\ HasSession(i)
        /\ ~PolicyOf(context[i]).isPublic
        /\ PolicyOf(context[i]).requiredRoles = {}
        /\ Admin \in PolicyOf(context[i]).requiredOrgRoles
        /\ provided[i].getSession.user.role = Str(Admin)
        /\ ActiveOrganizationId(i) = Undefined
        /\ Denied(i, "FORBIDDEN")
        /\ LookupCalls(i) = 0

\* C7: on a handler with non-empty required organization roles and a session with
\* an active organization, the organization-role check passes if and only if the
\* role the lookup returned, split on commas and trimmed like a system role,
\* intersects the required organization roles; otherwise the invocation ends with
\* FORBIDDEN.
C7_OrgRoleCheckIffNormalizedIntersects ==
    \A i \in DOMAIN pc :
        OrgRoleLookedUp(i)
        => LET intersects ==
                   NormalizedSet(LookedUpRole(i))
                       \cap PolicyOf(context[i]).requiredOrgRoles # {}
           IN  /\ intersects <=> Allowed(i)
               /\ ~intersects => Denied(i, "FORBIDDEN")

C7_Witness ==
    \E i \in DOMAIN pc :
        /\ OrgRoleLookedUp(i)
        /\ PolicyOf(context[i]).requiredOrgRoles = {Owner, Admin}
        /\ LookedUpRole(i) = Str(<<"a", ",", " ">>)
        /\ Allowed(i)

\* C8: whenever the organization-role lookup raises, the invocation ends with the
\* transport's FORBIDDEN error: it is never allowed and the provider's error is
\* never the outcome of canActivate.
C8_LookupErrorForbidden ==
    \A i \in DOMAIN pc :
        (provided[i].member.tag = "error")
        => /\ pc[i] = "done"
           /\ Denied(i, "FORBIDDEN")
           /\ ~Allowed(i)
           /\ outcome[i] # Rejected(provided[i].member)

C8_Witness ==
    \E i \in DOMAIN pc :
        /\ provided[i].member = ProviderError("getActiveMember")
        /\ calls[i].getActiveMember = 1
        /\ context[i].type = "graphql"
        /\ Denied(i, "FORBIDDEN")

\* C9: on a non-public handler with non-empty required roles and non-empty required
\* organization roles, an authenticated invocation is allowed only if user.role
\* matches the required roles and the looked-up member role matches the required
\* organization roles; neither role stands in for the other.
C9_BothChecksMustPass ==
    \A i \in DOMAIN pc :
        (/\ HasSession(i)
         /\ ~PolicyOf(context[i]).isPublic
         /\ PolicyOf(context[i]).requiredRoles # {}
         /\ PolicyOf(context[i]).requiredOrgRoles # {}
         /\ Allowed(i))
        => /\ NormalizedSet(provided[i].getSession.user.role)
                \cap PolicyOf(context[i]).requiredRoles # {}
           /\ LookupCalls(i) = 1
           /\ provided[i].member.tag = "object"
           /\ NormalizedSet(provided[i].member.role)
                \cap PolicyOf(context[i]).requiredOrgRoles # {}

C9_Witness ==
    \E i \in DOMAIN pc :
        /\ HasSession(i)
        /\ ~PolicyOf(context[i]).isPublic
        /\ PolicyOf(context[i]).requiredRoles = {Owner, Admin}
        /\ PolicyOf(context[i]).requiredOrgRoles = {Owner}
        /\ provided[i].getSession.user.role = Str(Admin)
        /\ provided[i].member = MemberOf(Str(Owner))
        /\ Allowed(i)

\* C10: in every invocation, whatever the policy, getSession is called exactly
\* once, before any policy annotation is read; its result is what the request
\* view's session holds from then on, with user set to the session's user, or to
\* null when there is no session.
C10_SessionFetchedOnceAndAttached ==
    \A i \in DOMAIN pc :
        /\ calls[i].getSession = (IF pc[i] = "idle" THEN 0 ELSE 1)
        /\ \A k \in 1..Len(log[i]) :
              log[i][k] \in {"reflect:PUBLIC", "reflect:OPTIONAL",
                             "reflect:ROLES", "reflect:ORG_ROLES"}
              => \E j \in 1..(k - 1) : log[i][j] = "getSession"
        /\ pc[i] = "done" =>
              \E k \in 1..Len(log[i]) : log[i][k] = "getSession"
        /\ SessionFetched(i) =>
              /\ request[i].session = provided[i].getSession
              /\ request[i].user =
                    (IF HasSession(i) THEN provided[i].getSession.user ELSE Null)

C10_Witness ==
    \E i \in DOMAIN pc :
        /\ pc[i] = "done"
        /\ PolicyOf(context[i]).isPublic
        /\ NoSession(i)
        /\ calls[i].getSession = 1
        /\ request[i].session = Null
        /\ request[i].user = Null

----------------------------------------------------------------------------
(* Claims on policy resolution and on the error taxonomy *)

Logged(i, step) == \E k \in 1..Len(log[i]) : log[i][k] = step

Unannotated(ctx) ==
    \A key \in MetadataKeys :
        ctx.handler[key] = Undefined /\ ctx.class[key] = Undefined

\* C11: each policy key is resolved on its own as the handler's value when the
\* handler declares it (an empty list included), else the class's value, else
\* absent: once getSession has returned, the guard stops at the PUBLIC test iff the
\* resolved PUBLIC is set; without a session a non-public handler is allowed iff
\* the resolved OPTIONAL is set; with a session the system-role check runs iff the
\* resolved ROLES is non-empty and, when reached, the organization-role check runs
\* iff the resolved ORG_ROLES is non-empty.  A handler with no annotation at all
\* is allowed with a session and UNAUTHORIZED without.
C11_HandlerFirstResolution ==
    \A i \in DOMAIN pc :
        SessionFetched(i) =>
            LET policy == PolicyOf(context[i])
            IN  /\ policy.isPublic <=> ~Logged(i, "reflect:OPTIONAL")
                /\ (NoSession(i) /\ ~policy.isPublic)
                      => (policy.isOptional <=> Allowed(i))
                /\ (HasSession(i) /\ ~policy.isPublic)
                      => (policy.requiredRoles # {} <=> Logged(i, "checkUserRole"))
                /\ (HasSession(i) /\ Logged(i, "reflect:ORG_ROLES"))
                      => (policy.requiredOrgRoles # {} <=> Logged(i, "checkOrgRole"))
                /\ Unannotated(context[i])
                      => /\ pc[i] = "done"
                         /\ Allowed(i) <=> HasSession(i)
                         /\ NoSession(i) => Denied(i, "UNAUTHORIZED")

\* the handler's empty list overrides the class's required roles
C11_Witness ==
    \E i \in DOMAIN pc :
        /\ HasSession(i)
        /\ context[i].handler["ROLES"] = Arr(<<>>)
        /\ context[i].class["ROLES"] = Arr(<<Admin>>)
        /\ context[i].handler["PUBLIC"] = Bool(FALSE)
        /\ context[i].class["PUBLIC"] = Bool(TRUE)
        /\ PolicyOf(context[i]).requiredOrgRoles = {}
        /\ provided[i].getSession.user.role = Undefined
        /\ ~Logged(i, "checkUserRole")
        /\ Allowed(i)

\* the causes of a FORBIDDEN outcome, read off the policy and the provider's answers
SystemRoleCheckFailed(i) ==
    /\ PolicyOf(context[i]).requiredRoles # {}
    /\ ~checkUserRole(provided[i].getSession, Annotation("ROLES", context[i]).items)

NoActiveOrganization(i) ==
    /\ PolicyOf(context[i]).requiredOrgRoles # {}
    /\ ~Truthy(ActiveOrganizationId(i))

OrgRoleLookupFailed(i) ==
    /\ PolicyOf(context[i]).requiredOrgRoles # {}
    /\ provided[i].member.tag = "error"

OrgRoleCheckFailed(i) ==
    /\ PolicyOf(context[i]).requiredOrgRoles # {}
    /\ Truthy(ActiveOrganizationId(i))
    /\ \/ api[i] = {} /\ Logged(i, "probe")
       \/ /\ provided[i].member.tag \notin {"pending", "error"}
          /\ ~matchesRequiredRole(LookedUpRole(i),
                                  Annotation("ORG_ROLES", context[i]).items)

\* C12: an invocation ends with UNAUTHORIZED only if getSession returned no session
\* and the handler is neither public nor optional; it ends with FORBIDDEN only if
\* getSession returned a session and the system-role check failed, or the
\* organization-role check was required and there was no active organization, the
\* lookup raised, or the looked-up role did not match.  With a session no
\* invocation ends with UNAUTHORIZED, and without one none ends with FORBIDDEN.
C12_ErrorTaxonomy ==
    \A i \in DOMAIN pc :
        IF pc[i] # "done" THEN outcome[i] = Pending
        ELSE /\ Denied(i, "UNAUTHORIZED")
                   => /\ NoSession(i)
                      /\ ~PolicyOf(context[i]).isPublic
                      /\ ~PolicyOf(context[i]).isOptional
             /\ Denied(i, "FORBIDDEN")
                   => /\ HasSession(i)
                      /\ \/ SystemRoleCheckFailed(i)
                         \/ NoActiveOrganization(i)
                         \/ OrgRoleLookupFailed(i)
                         \/ OrgRoleCheckFailed(i)
             /\ HasSession(i) => ~Denied(i, "UNAUTHORIZED")
             /\ ~HasSession(i) => ~Denied(i, "FORBIDDEN")
             /\ \/ Allowed(i)
                \/ Denied(i, "UNAUTHORIZED")
                \/ Denied(i, "FORBIDDEN")
                \/ outcome[i] = Rejected(ProviderError("getSession"))

\* FORBIDDEN for the missing active organization alone: the system role matched
C12_Witness ==
    \E i \in DOMAIN pc :
        /\ HasSession(i)
        /\ PolicyOf(context[i]).requiredRoles # {}
        /\ ~SystemRoleCheckFailed(i)
        /\ NoActiveOrganization(i)
        /\ context[i].type = "rpc"
        /\ Denied(i, "FORBIDDEN")

\* an optional handler that also declares required roles or organization roles
OptionalWithRoles(ctx) ==
    /\ PolicyOf(ctx).isOptional
    /\ PolicyOf(ctx).requiredRoles # {} \/ PolicyOf(ctx).requiredOrgRoles # {}

\* without a session: allowed, and no role check ran
AnonymousSkipsRoleChecks(i) ==
    /\ pc[i] = "done"
    /\ Allowed(i)
    /\ ~Logged(i, "checkUserRole")
    /\ ~Logged(i, "checkOrgRole")
    /\ LookupCalls(i) = 0

\* with a session: the declared role checks run, and a failing one denies
RoleChecksApply(i) ==
    /\ PolicyOf(context[i]).requiredRoles # {}
          => /\ Logged(i, "checkUserRole")
             /\ SystemRoleCheckFailed(i) => (pc[i] = "done" /\ Denied(i, "FORBIDDEN"))
    /\ (PolicyOf(context[i]).requiredOrgRoles # {} /\ ~SystemRoleCheckFailed(i))
          => /\ Logged(i, "checkOrgRole")
             /\ NoActiveOrganization(i) => (pc[i] = "done" /\ Denied(i, "FORBIDDEN"))

\* C13 as stated: on an optional handler that declares non-empty required roles (or
\* organization roles), an invocation without a session is allowed without any
\* role check, and with a session the role checks still apply.
C13_OptionalWithRoles ==
    \A i \in DOMAIN pc :
        OptionalWithRoles(context[i])
        => /\ NoSession(i) => AnonymousSkipsRoleChecks(i)
           /\ HasSession(i) => RoleChecksApply(i)

\* C13 amended: on an optional handler that declares non-empty required roles (or
\* organization roles), an invocation without a session is allowed without any
\* role check; with a session the role checks still apply unless the handler is
\* also public.
C13_OptionalWithRolesUnlessPublic ==
    \A i \in DOMAIN pc :
        OptionalWithRoles(context[i])
        => /\ NoSession(i) => AnonymousSkipsRoleChecks(i)
           /\ (HasSession(i) /\ ~PolicyOf(context[i]).isPublic) => RoleChecksApply(i)

C13_Witness ==
    \E i \in DOMAIN pc :
        /\ OptionalWithRoles(context[i])
        /\ ~PolicyOf(context[i]).isPublic
        /\ PolicyOf(context[i]).requiredRoles # {}
        /\ PolicyOf(context[i]).requiredOrgRoles # {}
        /\ NoSession(i)
        /\ Logged(i, "reflect:OPTIONAL")
        /\ AnonymousSkipsRoleChecks(i)

----------------------------------------------------------------------------
(* AuthContextErrorMap on every row and detail argument *)

ErrorKinds == {"UNAUTHORIZED", "FORBIDDEN"}

Obj(message) == [tag |-> "object", message |-> message]

\* args?: unknown
Details ==
    { Undefined, Null, Bool(FALSE), Bool(TRUE),
      Str(<<>>), Str(<<"m">>), Str(<<"n">>),
      [tag |-> "object"], [tag |-> "object", code |-> Str(<<"c">>)],
      Obj(Undefined), Obj(Null), Obj(Str(<<>>)), Obj(Str(<<"m">>)),
      [tag |-> "object", code |-> Str(<<"c">>), message |-> Str(<<"n">>)] }

\* AuthContextErrorMap[ctxType][kind](args), with the lazy load of the error class
MapError ==
    \E ctxType \in ContextTypes, kind \in ErrorKinds, args \in Details :
        /\ thrown' = [applied |-> TRUE, ctxType |-> ctxType, kind |-> kind,
                      args |-> args,
                      error |-> AuthContextErrorMap(ctxType, kind, args)]
        /\ GraphQLErrorClass' = GraphQLErrorClassAfter(ctxType)
        /\ WsException' = WsExceptionAfter(ctxType)
        /\ UNCHANGED <<pc, context, request, outcome, calls, log, api, provided,
                       headers, matched, installed, nest, served>>

SpecErrors == InitOver({}, Peers) /\ [][MapError]_vars

\* a detail was provided
Provided(args) == args # Undefined /\ args # Null

\* C14: every (transport kind, error kind) pair gives one error: http a 401
\* UnauthorizedException or a 403 ForbiddenException whose body is the provided
\* detail, or by default {code: "UNAUTHORIZED", message: "Unauthorized"} or
\* {code: "FORBIDDEN", message: "Insufficient permissions"}; graphql a GraphQLError
\* whose message is the string detail, the object detail's message, or by default
\* "Unauthorized" / "Forbidden"; ws a WsException carrying the provided detail or
\* the literal "UNAUTHORIZED" / "FORBIDDEN"; rpc an Error carrying that literal.
C14_ErrorMapperRows ==
    thrown.applied =>
        LET kind == thrown.kind
            args == thrown.args
            error == thrown.error
        IN  CASE thrown.ctxType = "http" ->
                    /\ error.class = (IF kind = "UNAUTHORIZED"
                                      THEN "UnauthorizedException"
                                      ELSE "ForbiddenException")
                    /\ error.status = (IF kind = "UNAUTHORIZED" THEN 401 ELSE 403)
                    /\ error.response =
                          (IF Provided(args) THEN args
                           ELSE IF kind = "UNAUTHORIZED"
                           THEN [tag |-> "object", code |-> Literal("UNAUTHORIZED"),
                                 message |-> Literal("Unauthorized")]
                           ELSE [tag |-> "object", code |-> Literal("FORBIDDEN"),
                                 message |-> Literal("Insufficient permissions")])
              [] thrown.ctxType = "graphql" ->
                    /\ error.class = "GraphQLError"
                    /\ error.message =
                          (IF args.tag = "string" THEN args
                           ELSE IF args.tag = "object" /\ "message" \in DOMAIN args
                                   /\ Provided(args.message)
                           THEN args.message
                           ELSE IF kind = "UNAUTHORIZED" THEN Literal("Unauthorized")
                           ELSE Literal("Forbidden"))
              [] thrown.ctxType = "ws" ->
                    /\ error.class = "WsException"
                    /\ error.message = (IF Provided(args) THEN args ELSE Literal(kind))
              [] thrown.ctxType = "rpc" ->
                    error = [tag |-> "error", class |-> "Error",
                             message |-> Literal(kind)]

\* a graphql FORBIDDEN built from an object detail takes the detail's message
C14_Witness ==
    /\ thrown.applied
    /\ thrown.ctxType = "graphql"
    /\ thrown.kind = "FORBIDDEN"
    /\ thrown.args = [tag |-> "object", code |-> Str(<<"c">>), message |-> Str(<<"n">>)]
    /\ thrown.error.message = Str(<<"n">>)

----------------------------------------------------------------------------
(* The guard on a transport kind outside AuthContextErrorMap *)

\* context.getType() of a transport that is neither http, graphql, ws nor rpc
UnknownTypes == {"custom"}

UnknownContexts ==
    { ContextOf(type, public, optional, roles, orgRoles) :
        type \in UnknownTypes, public \in FlagAnnotations,
        optional \in FlagAnnotations, roles \in RoleAnnotations,
        orgRoles \in RoleAnnotations }

NextUnknown ==
    \E i \in Invocations :
        \/ Start(i, UnknownContexts)
        \/ SessionReturns(i, Sessions, Apis)
        \/ SessionRaises(i)
        \/ OrgLookupReturns(i, LookupResults)
        \/ OrgLookupRaises(i)

SpecUnknown == Init /\ [][NextUnknown]_vars

\* C15: an invocation whose transport kind is not http, graphql, ws or rpc never
\* ends with "allow" and never ends with the UNAUTHORIZED or FORBIDDEN error of
\* any transport.
C15_UnknownTransportNeverDecides ==
    \A i \in DOMAIN pc :
        (pc[i] = "done" /\ context[i].type \notin ContextTypes)
        => /\ ~Allowed(i)
           /\ \A type \in ContextTypes, kind \in ErrorKinds :
                 outcome[i] # Rejected(TransportError(type, kind))

----------------------------------------------------------------------------
(* The guard with optional peer packages missing *)

\* handlers with and without each annotation
PlainFlags == { <<Undefined, Undefined>>, <<Bool(TRUE), Undefined>> }
PlainRoles == { <<Undefined, Undefined>>, <<Arr(<<Admin>>), Undefined>> }

PeerContexts ==
    { ContextOf(type, public, optional, roles, orgRoles) :
        type \in ContextTypes, public \in PlainFlags, optional \in PlainFlags,
        roles \in PlainRoles, orgRoles \in PlainRoles }

\* the guard is constructed whatever peers require() can resolve
InitPeers == \E peers \in SUBSET Peers : InitOver(Invocations, peers)

NextPeers ==
    \E i \in Invocations :
        \/ Start(i, PeerContexts)
        \/ SessionReturns(i, OrgRoleSessions, Apis)
        \/ SessionRaises(i)
        \/ OrgLookupReturns(i, LookupResults)
        \/ OrgLookupRaises(i)

SpecPeers == InitPeers /\ [][NextPeers]_vars

\* C16: no invocation of canActivate ends with the "graphql is required" or the
\* "@nestjs/websockets is required" error: a missing peer package never first
\* shows while a request is being decided.
C16_MissingPeerNeverAtRequestTime ==
    \A i \in DOMAIN pc :
        /\ outcome[i] # Rejected(Error("Error", Literal(GraphQLRequired)))
        /\ outcome[i] # Rejected(Error("Error", Literal(WebsocketsRequired)))

----------------------------------------------------------------------------
(* The guard on request views of every shape *)

\* the session cookie a second source of headers carries
OtherCookie == Str(<<"t">>)

\* request.headers and client.handshake, present or not
Views ==
    { ViewOf(nodeHeaders, handshake) :
        nodeHeaders \in { Undefined, NodeHeaders(Undefined), NodeHeaders(Cookie) },
        handshake \in { Undefined, HandshakeOf(Undefined),
                        HandshakeOf(NodeHeaders(OtherCookie)) } }

HeaderContexts ==
    { ContextWith(type, view, <<Undefined, Undefined>>, <<Undefined, Undefined>>,
                  <<Undefined, Undefined>>, orgRoles) :
        type \in ContextTypes, view \in Views, orgRoles \in PlainRoles }

NextHeaders ==
    \E i \in Invocations :
        \/ Start(i, HeaderContexts)
        \/ SessionReturns(i, OrgRoleSessions, Apis)
        \/ SessionRaises(i)
        \/ OrgLookupReturns(i, LookupResults)
        \/ OrgLookupRaises(i)

SpecHeaders == Init /\ [][NextHeaders]_vars

\* the view of an invocation: the request unwrapped from the GraphQL context, the
\* websocket client, or the request itself
ViewOfContext(ctx) == IF ctx.type = "graphql" THEN ctx.gqlReq ELSE ctx.arg0

\* the node headers the specification names as the source for a transport
HeaderSource(ctx) ==
    IF ctx.type = "ws"
    THEN (IF ViewOfContext(ctx).handshake = Undefined THEN Undefined
          ELSE ViewOfContext(ctx).handshake.headers)
    ELSE ViewOfContext(ctx).headers

\* C17: when the source exists, the headers passed to getSession and to the
\* organization-role lookup are, for a ws invocation, the client's
\* handshake.headers and not a headers field of the client object; for http, rpc
\* and graphql they are the headers of the request (for graphql the request
\* unwrapped from the GraphQL context).
C17_HeadersFromTransportSource ==
    \A i \in DOMAIN pc :
        (pc[i] # "idle" /\ HeaderSource(context[i]) # Undefined)
        => /\ headers[i].getSession = fromNodeHeaders(HeaderSource(context[i]))
           /\ LookupCalls(i) > 0
                 => headers[i].lookup = fromNodeHeaders(HeaderSource(context[i]))

----------------------------------------------------------------------------
(* Concurrent invocations of the guard *)

ConcurrentInvocations == {"i1", "i2"}

ConcurrentContexts ==
    { ContextOf(type, <<Undefined, Undefined>>, <<Undefined, Undefined>>,
                <<Undefined, Undefined>>, orgRoles) :
        type \in ContextTypes, orgRoles \in PlainRoles }

ConcurrentSessions == { Null, SessionOf(Str(Admin), Str(<<"x">>)) }

ConcurrentApis == { {"getActiveMemberRole", "getActiveMember"} }

ConcurrentLookupResults == { MemberOf(Str(Admin)), MemberOf(Str(Owner)) }

InitConcurrent == InitOver(ConcurrentInvocations, Peers)

\* the runs of the invocations interleave at their await points
NextConcurrent ==
    \E i \in ConcurrentInvocations :
        \/ Start(i, ConcurrentContexts)
        \/ SessionReturns(i, ConcurrentSessions, ConcurrentApis)
        \/ SessionRaises(i)
        \/ OrgLookupReturns(i, ConcurrentLookupResults)
        \/ OrgLookupRaises(i)

SpecConcurrent == InitConcurrent /\ [][NextConcurrent]_vars

\* the outcome of an invocation run alone, from its policy and the provider's
\* answers to it
OutcomeAlone(i) ==
    LET policy == PolicyOf(context[i])
        type == context[i].type
    IN  IF provided[i].getSession.tag = "error"
        THEN Rejected(provided[i].getSession)
        ELSE IF policy.isPublic THEN Resolved(TRUE)
        ELSE IF NoSession(i)
             THEN (IF policy.isOptional THEN Resolved(TRUE)
                   ELSE Rejected(TransportError(type, "UNAUTHORIZED")))
        ELSE IF \/ SystemRoleCheckFailed(i)
                \/ NoActiveOrganization(i)
                \/ OrgRoleLookupFailed(i)
                \/ OrgRoleCheckFailed(i)
             THEN Rejected(TransportError(type, "FORBIDDEN"))
        ELSE Resolved(TRUE)

\* what an invocation ends with is what it ends with alone
DecidesAsAlone ==
    \A i \in DOMAIN pc :
        pc[i] = "done"
        => /\ outcome[i] = OutcomeAlone(i)
           /\ SessionFetched(i)
                 => /\ request[i].session = provided[i].getSession
                    /\ request[i].user =
                          (IF HasSession(i) THEN provided[i].getSession.user ELSE Null)

\* everything an invocation holds of its own
OwnState(i) ==
    <<pc[i], context[i], request[i], outcome[i], calls[i], log[i], api[i],
      provided[i], headers[i]>>

\* a step is a step of one invocation and leaves the others as they are
StepOfOne ==
    \E i \in DOMAIN pc : \A j \in DOMAIN pc \ {i} : OwnState(j)' = OwnState(j)

\* session and user are written together, in the step in which getSession returns,
\* and never again
WritesSessionOnce ==
    \A i \in DOMAIN pc :
        /\ (pc[i] = "awaitSession" /\ provided'[i].getSession.tag \in {"null", "session"})
              => /\ request'[i].session = provided'[i].getSession
                 /\ request'[i].user =
                       (IF provided'[i].getSession.tag = "session"
                        THEN provided'[i].getSession.user ELSE Null)
        /\ (pc[i] = "awaitSession" /\ provided'[i].getSession.tag = "error")
              => request'[i] = request[i]
        /\ pc[i] \in {"awaitOrgRole", "done"} => request'[i] = request[i]

\* the module-level caches are only ever filled
CachesOnlyFill ==
    /\ GraphQLErrorClass => GraphQLErrorClass'
    /\ WsException => WsException'
    /\ UNCHANGED <<installed, nest, served, matched, thrown>>

----------------------------------------------------------------------------
(* Claims on the provider calls *)

\* C19: the organization-role lookup probes the provider when it runs: when
\* getActiveMemberRole is exposed it is called once and getActiveMember is not
\* called, whatever the result; getActiveMember is called, once, only when
\* getActiveMemberRole is not exposed; when neither is exposed no call is made,
\* nothing is raised or logged, and the invocation ends with FORBIDDEN.  Without
\* the probe no lookup call is made.
C19_CapabilityDetection ==
    \A i \in DOMAIN pc :
        IF ~Logged(i, "probe") THEN LookupCalls(i) = 0
        ELSE /\ "getActiveMemberRole" \in api[i]
                   => /\ calls[i].getActiveMemberRole = 1
                      /\ calls[i].getActiveMember = 0
             /\ ("getActiveMemberRole" \notin api[i] /\ "getActiveMember" \in api[i])
                   => /\ calls[i].getActiveMemberRole = 0
                      /\ calls[i].getActiveMember = 1
             /\ api[i] = {}
                   => /\ LookupCalls(i) = 0
                      /\ provided[i].member = Pending
                      /\ ~Logged(i, "console.error")
                      /\ pc[i] = "done"
                      /\ Denied(i, "FORBIDDEN")

\* both operations exposed, getActiveMemberRole answers without a role: the
\* fallback is not tried
C19_Witness ==
    \E i \in DOMAIN pc :
        /\ api[i] = {"getActiveMemberRole", "getActiveMember"}
        /\ pc[i] = "done"
        /\ provided[i].member = MemberOf(Undefined)
        /\ calls[i].getActiveMemberRole = 1
        /\ calls[i].getActiveMember = 0
        /\ Denied(i, "FORBIDDEN")

\* the provider settles the session fetch of an invocation, and its run resumes
SessionSettles(i) ==
    SessionReturns(i, ConcurrentSessions, ConcurrentApis) \/ SessionRaises(i)

\* the provider settles the organization-role lookup of an invocation
OrgLookupSettles(i) ==
    OrgLookupReturns(i, ConcurrentLookupResults) \/ OrgLookupRaises(i)

\* the provider completes every call of invocation i1; a call of i2 may never
\* complete.  A settled promise resumes the awaiting run, so a call that
\* completes is a step that is taken.
SpecLive ==
    /\ InitConcurrent
    /\ [][NextConcurrent]_vars
    /\ WF_vars(SessionSettles("i1"))
    /\ WF_vars(OrgLookupSettles("i1"))

\* every call is issued once per invocation, and the invocation has an outcome
\* exactly when every call it issued has settled
OutcomeIffCallsSettled ==
    \A i \in DOMAIN pc :
        /\ calls[i].getSession = (IF pc[i] = "idle" THEN 0 ELSE 1)
        /\ LookupCalls(i) =
              (IF pc[i] = "awaitOrgRole" \/ provided[i].member # Pending THEN 1 ELSE 0)
        /\ outcome[i] # Pending <=> pc[i] = "done"
        /\ pc[i] = "done"
              <=> /\ calls[i].getSession = 1
                  /\ provided[i].getSession # Pending
                  /\ LookupCalls(i) = 1 => provided[i].member # Pending

\* a suspended invocation resumes only in the step in which its call settles
ResumesOnlyOnSettle ==
    \A i \in DOMAIN pc :
        /\ (pc[i] = "awaitSession" /\ OwnState(i)' # OwnState(i))
              => provided[i].getSession = Pending /\ provided'[i].getSession # Pending
        /\ (pc[i] = "awaitOrgRole" /\ OwnState(i)' # OwnState(i))
              => provided[i].member = Pending /\ provided'[i].member # Pending
        /\ pc[i] = "done" => OwnState(i)' = OwnState(i)

\* C20: provider calls are neither retried, cached nor timed out: an invocation
\* issues getSession once and at most one lookup call, has an outcome if and only
\* if every call it issued has returned or raised, and while a call is pending
\* nothing but that call's settling moves it on.  An invocation whose calls all
\* complete terminates, even while a call of another invocation never completes.
C20_OutcomeIffProviderCompletes ==
    /\ []OutcomeIffCallsSettled
    /\ [][ResumesOnlyOnSettle]_vars
    /\ (pc["i1"] = "awaitSession") ~> (pc["i1"] = "done")

\* i1 is decided after both of its calls settled while i2's session fetch is
\* still pending
C20_Witness ==
    /\ pc["i1"] = "done"
    /\ LookupCalls("i1") = 1
    /\ provided["i1"].member # Pending
    /\ Allowed("i1")
    /\ pc["i2"] = "awaitSession"
    /\ outcome["i2"] = Pending

----------------------------------------------------------------------------
(* The module: its options, the middlewares it registers, request routing *)

\* String.prototype.startsWith
StartsWith(s, prefix) ==
    Len(prefix) <= Len(s) /\ SubSeq(s, 1, Len(prefix)) = prefix

\* path.replace(/\/+$/, ''): trailing slashes removed
RECURSIVE StripTrailingSlashes(_)
StripTrailingSlashes(s) ==
    IF s # <<>> /\ s[Len(s)] = "/"
    THEN StripTrailingSlashes(SubSeq(s, 1, Len(s) - 1))
    ELSE s

\* path.replace(/\/+/g, '/'): runs of slashes collapsed
RECURSIVE CollapseSlashes(_)
CollapseSlashes(s) ==
    IF Len(s) < 2 THEN s
    ELSE IF s[1] = "/" /\ s[2] = "/" THEN CollapseSlashes(Tail(s))
    ELSE <<Head(s)>> \o CollapseSlashes(Tail(s))

\* normalizePath of @nestjs/common: a leading slash, no trailing slash
normalizePath(path) ==
    IF path = <<>> THEN <<"/">>
    ELSE IF StartsWith(path, <<"/">>)
         THEN CollapseSlashes(<<"/">> \o StripTrailingSlashes(path))
    ELSE <<"/">> \o StripTrailingSlashes(path)

\* "/api/auth"
DefaultBasePath == <<"/", "a", "p", "i", "/", "a", "u", "t", "h">>

\* AuthModule's constructor: normalizePath(auth.options.basePath ?? "/api/auth")
BasePathOf(auth) ==
    normalizePath(Coalesce(auth.options.basePath, Str(DefaultBasePath)).chars)

Fn(does) == [tag |-> "function", does |-> does]

\* the object a body parser leaves in req.body
Parsed(bytes) == [tag |-> "object", parsedFrom |-> bytes]

\* a Buffer holding the bytes of a body
Buffer(body) == [tag |-> "Buffer", of |-> body]

\* "*path"
AllRoutes == <<"*", "p", "a", "t", "h">>

\* a route of forRoutes: "*path" takes every request, a path takes the requests
\* at it and below it, split at a slash
RouteMatches(route, path) ==
    \/ route = AllRoutes
    \/ path = route
    \/ StartsWith(path, route \o <<"/">>)

\* rawBodyParser: the verify callback of express.json
rawBodyParser(req, buffer) ==
    IF buffer.tag = "Buffer" THEN [req EXCEPT !.rawBody = buffer] ELSE req

\* SkipBodyParsingMiddleware(options): the middleware it returns, with the
\* defaults of its destructured options
SkipBodyParsingMiddleware(options) ==
    [kind |-> "SkipBodyParsing",
     basePath |-> IF options.basePath.tag = "undefined" THEN DefaultBasePath
                  ELSE options.basePath.chars,
     verify |-> Truthy(IF options.enableRawBodyParser.tag = "undefined"
                       THEN Bool(FALSE)
                       ELSE options.enableRawBodyParser)]

\* what a middleware did with a request: the request as it left it, the steps it
\* took, and how it ended: "next", "error" (next(err) or a throw) or "responded"
Ran(req, steps, end) == [req |-> req, steps |-> steps, end |-> end]

\* express.json(jsonParserOptions): reads a JSON body, hands the bytes to verify,
\* then parses; any other body is left for the next parser
ExpressJson(verify, req) ==
    IF req.contentType # "json" THEN Ran(req, <<"json">>, "next")
    ELSE LET verified == IF verify THEN rawBodyParser(req, Buffer(req.bytes))
                         ELSE req
             steps == IF verify THEN <<"json", "rawBodyParser">> ELSE <<"json">>
         IN  IF req.bytes = "malformed"
             THEN Ran(verified, steps, "error")
             ELSE Ran([verified EXCEPT !.body = Parsed(req.bytes)], steps, "next")

\* express.urlencoded({ extended: true }): parses a form body not parsed before
ExpressUrlencoded(req) ==
    IF req.contentType = "form" /\ req.body.tag = "undefined"
    THEN Ran([req EXCEPT !.body = Parsed(req.bytes)], <<"urlencoded">>, "next")
    ELSE Ran(req, <<"urlencoded">>, "next")

\* the middleware returned by SkipBodyParsingMiddleware, applied to a request
\* whose baseUrl is the path its route matched
RunSkipBodyParsing(mw, req) ==
    IF StartsWith(req.baseUrl, mw.basePath)
    THEN Ran(req, <<"next">>, "next")
    ELSE LET parsed == ExpressJson(mw.verify, req)
         IN  IF parsed.end = "error"
             THEN Ran(parsed.req, parsed.steps \o <<"next(err)">>, "error")
             ELSE LET form == ExpressUrlencoded(parsed.req)
                  IN  Ran(form.req, parsed.steps \o form.steps \o <<"next">>, "next")

\* req.baseUrl inside a middleware: the part of the path its route matched
BaseUrlAt(route, path) == IF route = AllRoutes THEN path ELSE route

\* the middleware AuthModule.configure applies at the base path: the middleware
\* option, when there is one, gets the provider's handler as its next
RunAuthHandler(mw, req) ==
    IF Truthy(mw.middleware)
    THEN CASE mw.middleware.does = "next" ->
                  Ran(req, <<"options.middleware", "handler">>, "responded")
           [] mw.middleware.does = "respond" ->
                  Ran(req, <<"options.middleware">>, "responded")
           [] mw.middleware.does = "throw" ->
                  Ran(req, <<"options.middleware">>, "error")
    ELSE Ran(req, <<"handler">>, "responded")

RunMiddleware(mw, req) ==
    IF mw.kind = "SkipBodyParsing" THEN RunSkipBodyParsing(mw, req)
    ELSE RunAuthHandler(mw, req)

\* the routes of the application's own controllers
ControllerPaths == {<<"/", "t", "e", "s", "t">>}

\* the router behind the middlewares: a controller's route or 404
Route(req) ==
    IF req.path \in ControllerPaths THEN Ran(req, <<"controller">>, "responded")
    ELSE Ran(req, <<"404">>, "responded")

\* a request through the registered middlewares in registration order, each one
\* whose route matches, up to the first that does not call next
RECURSIVE Through(_, _)
Through(mws, req) ==
    IF mws = <<>> THEN Route(req)
    ELSE IF ~RouteMatches(Head(mws).route, req.path) THEN Through(Tail(mws), req)
    ELSE LET ran == RunMiddleware(Head(mws).use,
                                  [req EXCEPT !.baseUrl = BaseUrlAt(Head(mws).route, req.path)])
         IN  IF ran.end # "next" THEN ran
             ELSE LET rest == Through(Tail(mws), ran.req)
                  IN  Ran(rest.req, ran.steps \o rest.steps, rest.end)

\* AuthModule.forRoot that drops the options of the deprecated signature
forRootDroppingLegacyOptions(arg1, arg2) ==
    LET normalizedOptions ==
            IF TypeOf(arg1) = "object" /\ arg1.tag # "null" /\ "auth" \in DOMAIN arg1
            THEN arg1
            ELSE [tag |-> "object", auth |-> arg1]
        flag == IF "disableControllers" \in DOMAIN normalizedOptions
                THEN normalizedOptions.disableControllers ELSE [tag |-> "undefined"]
    IN  [module |-> IF Truthy(flag) THEN "AuthModuleWithoutControllers"
                    ELSE "AuthModule",
         options |-> normalizedOptions]

\* AuthModule.forRoot: the object signature, or the deprecated (auth, options)
\* one; the module class is chosen by disableControllers
forRoot(arg1, arg2) ==
    LET normalizedOptions ==
            IF TypeOf(arg1) = "object" /\ arg1.tag # "null" /\ "auth" \in DOMAIN arg1
            THEN arg1
            ELSE LET rest == Coalesce(arg2, [tag |-> "object"])
                 IN  [k \in DOMAIN rest \cup {"auth"} |->
                          IF k = "auth" THEN arg1 ELSE rest[k]]
        flag == IF "disableControllers" \in DOMAIN normalizedOptions
                THEN normalizedOptions.disableControllers ELSE Undefined
    IN  [module |-> IF Truthy(flag) THEN "AuthModuleWithoutControllers"
                    ELSE "AuthModule",
         options |-> normalizedOptions]

\* AuthModule.forRootAsync: disableControllers is read from the async options,
\* the module options come from the factory
forRootAsync(options) ==
    [module |-> IF Truthy(options.disableControllers)
                THEN "AuthModuleWithoutControllers" ELSE "AuthModule",
     options |-> options.useFactory]

\* this.options.<name>, undefined when the options object has no such property
Option(options, name) ==
    IF name \in DOMAIN options THEN options[name] ELSE Undefined

\* AuthModule.configure: what it leaves behind, or the error it throws
configure(options, basePath) ==
    LET trustedOrigins == options.auth.options.trustedOrigins
        isNotFunctionBased == Truthy(trustedOrigins) /\ trustedOrigins.tag = "array"
        corsDisabled == Truthy(Option(options, "disableTrustedOriginsCors"))
        parser ==
            IF ~Truthy(Option(options, "disableBodyParser"))
            THEN <<[use |-> SkipBodyParsingMiddleware(
                                [basePath |-> Str(basePath),
                                 enableRawBodyParser |->
                                     Option(options, "enableRawBodyParser")]),
                     route |-> AllRoutes]>>
            ELSE <<>>
        handler == <<[use |-> [kind |-> "handler",
                                middleware |-> Option(options, "middleware")],
                      route |-> basePath]>>
    IN  IF ~corsDisabled /\ isNotFunctionBased
        THEN [threw |-> FALSE, cors |-> TRUE, middlewares |-> parser \o handler]
        ELSE IF Truthy(trustedOrigins) /\ ~corsDisabled /\ ~isNotFunctionBased
        THEN [threw |-> TRUE, cors |-> FALSE, middlewares |-> <<>>]
        ELSE [threw |-> FALSE, cors |-> FALSE, middlewares |-> parser \o handler]

\* AuthModuleWithoutControllers.configure
configureWithoutControllers ==
    [threw |-> FALSE, cors |-> FALSE, middlewares |-> <<>>]

----------------------------------------------------------------------------
(* Hooks *)

\* HOOKS: the two metadata keys with their hook types, in the order of the loop
HOOKS == <<"before", "after">>

\* the middleware setupHooks installs: it closes over the hook it replaces, the
\* path of the decorator and the provider method
Wrapper(originalHook, hookPath, method) ==
    [tag |-> "function", does |-> "wrap", originalHook |-> originalHook,
     hookPath |-> hookPath, method |-> method]

\* AuthModule.setupHooks for one provider method: the hooks object afterwards
RECURSIVE setupHooksFrom(_, _, _)
setupHooksFrom(k, hooks, providerMethod) ==
    IF k > Len(HOOKS) THEN hooks
    ELSE LET hookType == HOOKS[k]
             hasHook == providerMethod[hookType].tag # "none"
         IN  IF ~hasHook THEN setupHooksFrom(k + 1, hooks, providerMethod)
             ELSE setupHooksFrom(k + 1,
                      [hooks EXCEPT ![hookType] =
                           Wrapper(hooks[hookType], providerMethod[hookType].path,
                                   providerMethod)],
                      providerMethod)

setupHooks(hooks, providerMethod) ==
    IF ~Truthy(hooks) THEN hooks ELSE setupHooksFrom(1, hooks, providerMethod)

\* the methods of the providers, provider by provider, each in prototype order
RECURSIVE MethodsOf(_)
MethodsOf(providers) ==
    IF providers = <<>> THEN <<>>
    ELSE Head(providers).methods \o MethodsOf(Tail(providers))

RECURSIVE setupAll(_, _)
setupAll(hooks, methods) ==
    IF methods = <<>> THEN hooks
    ELSE setupAll(setupHooks(hooks, Head(methods)), Tail(methods))

\* AuthModule.onModuleInit: the hooks object afterwards, or the error it throws
onModuleInit(hooks, allProviders) ==
    LET providers == SelectSeq(allProviders, LAMBDA p : p.hook)
        hasHookProviders == Len(providers) > 0
        hooksConfigured == TypeOf(hooks) = "object"
    IN  IF hasHookProviders /\ ~hooksConfigured
        THEN [threw |-> TRUE, hooks |-> hooks]
        ELSE IF ~hooksConfigured THEN [threw |-> FALSE, hooks |-> hooks]
        ELSE [threw |-> FALSE, hooks |-> setupAll(hooks, MethodsOf(providers))]

\* what calling a hook did: the functions that ran, in order, and whether one of
\* them threw
Hooked(ran, threw) == [ran |-> ran, threw |-> threw]

\* a hook called with a context: a hook of the configuration, or the middleware
\* of setupHooks
RECURSIVE CallHook(_, _)
CallHook(hook, ctx) ==
    IF hook.does # "wrap"
    THEN Hooked(<<"originalHook">>, hook.does = "throw")
    ELSE LET before == IF Truthy(hook.originalHook)
                       THEN CallHook(hook.originalHook, ctx)
                       ELSE Hooked(<<>>, FALSE)
         IN  IF before.threw THEN before
             ELSE IF Truthy(hook.hookPath) /\ hook.hookPath # ctx.path THEN before
             ELSE Hooked(before.ran \o <<hook.method.name>>, hook.method.throws)

----------------------------------------------------------------------------
(* The application's life: forRoot, configure, onModuleInit, then requests *)

guardVars == <<pc, context, request, outcome, calls, log, api, provided, headers,
               thrown, matched, installed, GraphQLErrorClass, WsException>>

FunctionBasedTrustedOrigins ==
    Error("Error", Literal("Function-based trustedOrigins not supported in NestJS"))

HooksNotConfigured ==
    Error("Error", Literal("Detected @Hook providers but Better Auth 'hooks' are not configured"))

\* AuthModule.forRoot or forRootAsync, then the constructor of the module class
ForRoot(Calls, ProviderLists) ==
    /\ nest.phase = "none"
    /\ \E call \in Calls, providers \in ProviderLists :
           LET dynamic == IF call.entry = "forRootAsync"
                          THEN forRootAsync(call.options)
                          ELSE forRoot(call.arg1, call.arg2)
           IN  nest' = [phase |-> "created",
                        call |-> call,
                        module |-> dynamic.module,
                        options |-> dynamic.options,
                        basePath |-> BasePathOf(dynamic.options.auth),
                        providers |-> providers,
                        middlewares |-> <<>>,
                        cors |-> FALSE,
                        hooks |-> dynamic.options.auth.options.hooks,
                        error |-> Undefined]
    /\ UNCHANGED <<guardVars, served>>

\* Nest calls configure(consumer) of the module class
Configure ==
    /\ nest.phase = "created"
    /\ LET done == IF nest.module = "AuthModuleWithoutControllers"
                   THEN configureWithoutControllers
                   ELSE configure(nest.options, nest.basePath)
       IN  nest' = [nest EXCEPT
                        !.phase = IF done.threw THEN "failed" ELSE "configured",
                        !.middlewares = done.middlewares,
                        !.cors = done.cors,
                        !.error = IF done.threw THEN FunctionBasedTrustedOrigins
                                  ELSE Undefined]
    /\ UNCHANGED <<guardVars, served>>

\* Nest calls onModuleInit
OnModuleInit ==
    /\ nest.phase = "configured"
    /\ LET done == onModuleInit(nest.hooks, nest.providers)
       IN  nest' = [nest EXCEPT
                        !.phase = IF done.threw THEN "failed" ELSE "ready",
                        !.hooks = done.hooks,
                        !.error = IF done.threw THEN HooksNotConfigured
                                  ELSE Undefined]
    /\ UNCHANGED <<guardVars, served>>

\* an HTTP request to the running application
Serve(Requests) ==
    /\ nest.phase = "ready"
    /\ \E req \in Requests :
           LET ran == Through(nest.middlewares, req)
           IN  served' = [applied |-> TRUE, kind |-> "http", sent |-> req,
                          req |-> ran.req, steps |-> ran.steps, end |-> ran.end]
    /\ UNCHANGED <<guardVars, nest>>

\* the provider handles a request: it calls the hook of each type it finds in
\* its hooks option
ProviderRequest(Paths) ==
    /\ nest.phase = "ready"
    /\ \E hookType \in {HOOKS[k] : k \in 1..Len(HOOKS)}, path \in Paths :
           LET hook == IF Truthy(nest.hooks) THEN nest.hooks[hookType] ELSE Undefined
               done == IF Truthy(hook) THEN CallHook(hook, [path |-> path])
                       ELSE Hooked(<<>>, FALSE)
           IN  served' = [applied |-> TRUE, kind |-> "hook", hookType |-> hookType,
                          path |-> path, ran |-> done.ran, threw |-> done.threw]
    /\ UNCHANGED <<guardVars, nest>>

\* inputs
AuthOf(basePath, trustedOrigins, hooks) ==
    [tag |-> "object",
     options |-> [basePath |-> basePath, trustedOrigins |-> trustedOrigins,
                  hooks |-> hooks]]

Auths ==
    {AuthOf(basePath, trustedOrigins, Undefined) :
         basePath \in {Undefined, Str(<<"a", "u", "t", "h", "/">>)},
         trustedOrigins \in {Undefined, Arr(<<Str(<<"o">>)>>), Fn("origins")}}

\* the module options besides auth
Rests ==
    {[tag |-> "object", disableControllers |-> dc, disableBodyParser |-> dbp,
      enableRawBodyParser |-> raw, middleware |-> mw,
      disableTrustedOriginsCors |-> cors] :
         dc \in {Undefined, Bool(TRUE), Bool(FALSE)},
         dbp \in {Undefined, Bool(TRUE)},
         raw \in {Undefined, Bool(TRUE), Bool(FALSE)},
         mw \in {Undefined, Fn("next"), Fn("respond"), Fn("throw")},
         cors \in {Undefined, Bool(TRUE)}}

WithAuth(rest, auth) ==
    [k \in DOMAIN rest \cup {"auth"} |-> IF k = "auth" THEN auth ELSE rest[k]]

CallsOver(auths, rests) ==
    {[entry |-> "forRoot", arg1 |-> WithAuth(rest, auth), arg2 |-> Undefined] :
         auth \in auths, rest \in rests}
    \cup {[entry |-> "forRoot", arg1 |-> auth, arg2 |-> rest] :
              auth \in auths, rest \in rests \cup {Undefined}}
    \cup {[entry |-> "forRootAsync",
           options |-> [useFactory |-> WithAuth([rest EXCEPT !.disableControllers = Undefined], auth),
                        disableControllers |-> rest.disableControllers]] :
              auth \in auths, rest \in rests}

RequestPaths ==
    {DefaultBasePath,
     DefaultBasePath \o <<"/", "o", "k">>,
     DefaultBasePath \o <<"o", "r", "s">>,
     <<"/", "a", "u", "t", "h", "/", "o", "k">>,
     <<"/", "t", "e", "s", "t">>,
     <<"/", "n", "o">>}

Requests ==
    {[path |-> path, baseUrl |-> <<>>, contentType |-> b.contentType,
      bytes |-> b.bytes, rawBody |-> Undefined, body |-> Undefined] :
         path \in RequestPaths,
         b \in {[contentType |-> "json", bytes |-> "{}"],
                [contentType |-> "json", bytes |-> "malformed"],
                [contentType |-> "form", bytes |-> "a=1"],
                [contentType |-> "none", bytes |-> ""]}}

NextModule ==
    \/ ForRoot(CallsOver(Auths, Rests), {<<>>})
    \/ Configure
    \/ OnModuleInit
    \/ Serve(Requests)

SpecModule == InitOver({}, Peers) /\ [][NextModule]_vars

----------------------------------------------------------------------------
(* The module's claims *)

\* the disableControllers the application wrote in its forRoot or forRootAsync
DisableControllersGiven ==
    LET call == nest.call
    IN  IF call.entry = "forRootAsync" THEN call.options.disableControllers
        ELSE IF "auth" \in DOMAIN call.arg1 THEN call.arg1.disableControllers
        ELSE IF call.arg2.tag = "undefined" THEN Undefined
        ELSE call.arg2.disableControllers

DisableControllersSet == DisableControllersGiven = Bool(TRUE)

\* the middleware option the application wrote
MiddlewareGiven ==
    LET call == nest.call
    IN  IF call.entry = "forRootAsync" THEN call.options.useFactory.middleware
        ELSE IF "auth" \in DOMAIN call.arg1 THEN call.arg1.middleware
        ELSE IF call.arg2.tag = "undefined" THEN Undefined
        ELSE call.arg2.middleware

\* the path is the provider's base path or lies below it
UnderBasePath(path) ==
    \E k \in 1..Len(path) :
        /\ SubSeq(path, 1, k) = nest.basePath
        /\ k < Len(path) => path[k + 1] = "/"

Took(step) == \E k \in 1..Len(served.steps) : served.steps[k] = step

ServedHttp == served.applied /\ served.kind = "http"

\* with disableControllers set nothing is registered and a base-path request
\* ends in 404 without reaching the provider's handler
NothingRegisteredWhenDisabled ==
    /\ (nest.phase \in {"configured", "ready", "failed"} /\ DisableControllersSet)
          => nest.middlewares = <<>>
    /\ (ServedHttp /\ DisableControllersSet /\ UnderBasePath(served.sent.path))
          => ~Took("handler") /\ Took("404")

\* C21 as stated: with disableControllers set no middleware is registered and a
\* request under the base path gets 404 without reaching the provider's handler;
\* without it every request under the base path reaches the provider's handler.
C21_DisableControllers ==
    /\ NothingRegisteredWhenDisabled
    /\ (ServedHttp /\ ~DisableControllersSet /\ UnderBasePath(served.sent.path))
          => Took("handler")

\* C21: with disableControllers set no middleware is registered and a request
\* under the base path gets 404 without reaching the provider's handler; without
\* it every request under the base path reaches the provider's handler directly,
\* or, when the middleware option is given, reaches that middleware, and the
\* provider's handler exactly when the middleware calls its next.
C21_DisableControllersOrMiddleware ==
    /\ NothingRegisteredWhenDisabled
    /\ (ServedHttp /\ ~DisableControllersSet /\ UnderBasePath(served.sent.path))
          => IF MiddlewareGiven.tag = "function"
             THEN /\ Took("options.middleware")
                  /\ Took("handler") <=> MiddlewareGiven.does = "next"
             ELSE Took("handler")

\* disableControllers given in the deprecated forRoot(auth, options) form, and a
\* request below the base path answered with 404
C21_Witness ==
    /\ ServedHttp
    /\ nest.call.entry = "forRoot"
    /\ "auth" \notin DOMAIN nest.call.arg1
    /\ DisableControllersSet
    /\ served.sent.path = DefaultBasePath \o <<"/", "o", "k">>
    /\ nest.basePath = DefaultBasePath
    /\ Took("404")

\* the enableRawBodyParser the application wrote
EnableRawBodyParserGiven ==
    LET call == nest.call
    IN  IF call.entry = "forRootAsync" THEN call.options.useFactory.enableRawBodyParser
        ELSE IF "auth" \in DOMAIN call.arg1 THEN call.arg1.enableRawBodyParser
        ELSE IF call.arg2.tag = "undefined" THEN Undefined
        ELSE call.arg2.enableRawBodyParser

\* the body-parsing middleware is among the registered ones
BodyParserRegistered ==
    \E k \in 1..Len(nest.middlewares) : nest.middlewares[k].use.kind = "SkipBodyParsing"

Times(step) == Cardinality({k \in 1..Len(served.steps) : served.steps[k] = step})

\* the steps of the body-parsing middleware alone
ParserSteps == {"json", "rawBodyParser", "urlencoded", "next", "next(err)"}

\* C22: through the body-parsing middleware, a request outside the provider's
\* base path with a JSON body gets req.rawBody as a Buffer if and only if
\* enableRawBodyParser is true; a request whose baseUrl starts with the base path
\* meets no body parser and next is called exactly once; a JSON parsing error is
\* passed to next without the urlencoded parser running.
C22_RawBodyAndSkip ==
    (ServedHttp /\ BodyParserRegistered) =>
        /\ (~UnderBasePath(served.sent.path) /\ served.sent.contentType = "json")
              => (served.req.rawBody = Buffer(served.sent.bytes)
                     <=> EnableRawBodyParserGiven = Bool(TRUE))
        /\ StartsWith(served.sent.path, nest.basePath)
              => /\ ~Took("json") /\ ~Took("urlencoded") /\ ~Took("rawBodyParser")
                 /\ Times("next") = 1 /\ ~Took("next(err)")
        /\ (served.sent.contentType = "json" /\ served.sent.bytes = "malformed"
                /\ Took("json"))
              => Took("next(err)") /\ ~Took("urlencoded") /\ ~Took("next")

----------------------------------------------------------------------------
(* The guard once more: a failing session fetch, and the order of the steps *)

SessionFetchRaised(i) == provided[i].getSession.tag = "error"

AnnotationReads ==
    {"reflect:PUBLIC", "reflect:OPTIONAL", "reflect:ROLES", "reflect:ORG_ROLES"}

\* C23: if getSession itself raises, the invocation ends with that error whatever
\* the policy (public and optional included), the request view's session and user
\* are as they were before the invocation, no policy annotation has been read and
\* no org-role lookup has been issued.
C23_SessionFetchRaises ==
    \A i \in DOMAIN pc :
        SessionFetchRaised(i) =>
            /\ pc[i] = "done"
            /\ outcome[i] = Rejected(provided[i].getSession)
            /\ request[i].session = getRequestFromContext(context[i]).session
            /\ request[i].user = getRequestFromContext(context[i]).user
            /\ request[i] = getRequestFromContext(context[i])
            /\ \A step \in AnnotationReads : ~Logged(i, step)
            /\ LookupCalls(i) = 0
            /\ provided[i].member = Pending

\* getSession raised on a handler that is both public and optional and declares
\* organization roles
C23_Witness ==
    /\ SessionFetchRaised("i1")
    /\ PolicyOf(context["i1"]).isPublic
    /\ PolicyOf(context["i1"]).isOptional
    /\ PolicyOf(context["i1"]).requiredOrgRoles # {}
    /\ outcome["i1"] = Rejected(ProviderError("getSession"))

\* the steps the specification orders, each by the first thing the guard does in
\* it, and the two lookup operations last
StepOrder ==
    <<"getSession", "reflect:PUBLIC", "reflect:OPTIONAL", "reflect:ROLES",
      "checkUserRole", "reflect:ORG_ROLES", "checkOrgRole", "probe", "lookup">>

StepName(entry) ==
    IF entry \in {"getActiveMemberRole", "getActiveMember"} THEN "lookup" ELSE entry

Ordered(entry) == \E n \in 1..Len(StepOrder) : StepOrder[n] = StepName(entry)

Rank(entry) == CHOOSE n \in 1..Len(StepOrder) : StepOrder[n] = StepName(entry)

\* the ordered steps appear at most once each and in the fixed order, and none
\* appears without the check before it
InFixedOrder(i) ==
    /\ \A a, b \in 1..Len(log[i]) :
           (a < b /\ Ordered(log[i][a]) /\ Ordered(log[i][b]))
              => Rank(log[i][a]) < Rank(log[i][b])
    /\ Logged(i, "reflect:PUBLIC") => Logged(i, "getSession") /\ SessionFetched(i)
    /\ Logged(i, "reflect:OPTIONAL") => Logged(i, "reflect:PUBLIC")
    /\ Logged(i, "reflect:ROLES") => Logged(i, "reflect:OPTIONAL")
    /\ Logged(i, "reflect:ORG_ROLES") => Logged(i, "reflect:ROLES")

\* each check that decides ends the invocation before the checks after it
ShortCircuits(i) ==
    /\ (SessionFetched(i) /\ PolicyOf(context[i]).isPublic)
          => Allowed(i) /\ ~Logged(i, "reflect:OPTIONAL")
    /\ (NoSession(i) /\ ~PolicyOf(context[i]).isPublic)
          => /\ pc[i] = "done"
             /\ ~Logged(i, "reflect:ROLES") /\ ~Logged(i, "checkUserRole")
             /\ ~Logged(i, "reflect:ORG_ROLES")
    /\ (HasSession(i) /\ ~PolicyOf(context[i]).isPublic /\ SystemRoleCheckFailed(i))
          => pc[i] = "done" /\ ~Logged(i, "reflect:ORG_ROLES")

\* the organization-role lookup: at most once, and only in the case named
LookupOnlyWhenDue(i) ==
    /\ LookupCalls(i) <= 1
    /\ LookupCalls(i) = 1 <=> (Logged(i, "getActiveMemberRole") \/ Logged(i, "getActiveMember"))
    /\ LookupCalls(i) = 1 =>
           /\ HasSession(i)
           /\ ~PolicyOf(context[i]).isPublic
           /\ ~SystemRoleCheckFailed(i)
           /\ PolicyOf(context[i]).requiredOrgRoles # {}
           /\ Truthy(ActiveOrganizationId(i))

\* C24: within one invocation the steps occur in a fixed order and short-circuit:
\* session fetch, public check, optional/no-session check, system-role check,
\* org-role check; the organization-role lookup is issued at most once and only
\* when the session exists, the route is not public, the system-role check (if
\* any) has passed, requiredOrgRoles is non-empty and an active organization is
\* set.
C24_FixedOrderShortCircuit ==
    \A i \in DOMAIN pc :
        /\ InFixedOrder(i)
        /\ ShortCircuits(i)
        /\ LookupOnlyWhenDue(i)

\* an invocation that went through every step: both role lists declared, the
\* system-role check passed, and the lookup was issued and answered
C24_Witness ==
    /\ pc["i1"] = "done"
    /\ PolicyOf(context["i1"]).requiredRoles # {}
    /\ PolicyOf(context["i1"]).requiredOrgRoles # {}
    /\ Logged("i1", "checkUserRole")
    /\ Logged("i1", "checkOrgRole")
    /\ LookupCalls("i1") = 1
    /\ provided["i1"].member.tag = "object"

----------------------------------------------------------------------------
(* Hook providers *)

\* no BEFORE_HOOK_KEY / AFTER_HOOK_KEY metadata on a method
NoMeta == [tag |-> "none"]

\* the metadata @BeforeHook(path) / @AfterHook(path) leaves on a method
Meta(path) == [tag |-> "meta", path |-> path]

\* "/sign-in"
SignIn == <<"/", "s", "i", "g", "n", "-", "i", "n">>

\* "/sign-up"
SignUp == <<"/", "s", "i", "g", "n", "-", "u", "p">>

\* the providers of the application, in registration order: whether the class
\* carries @Hook, and its methods with their hook metadata
ProviderLists ==
    {<<>>}
    \cup {<<[hook |-> h1,
             methods |-> <<[name |-> "a.first", before |-> b1, after |-> a1,
                            throws |-> t1],
                           [name |-> "a.second", before |-> b2, after |-> NoMeta,
                            throws |-> FALSE]>>],
            [hook |-> h2,
             methods |-> <<[name |-> "b.first", before |-> b3,
                            after |-> Meta(Undefined), throws |-> FALSE]>>]>> :
              h1 \in BOOLEAN, h2 \in BOOLEAN, t1 \in BOOLEAN,
              b1 \in {NoMeta, Meta(Undefined), Meta(Str(SignIn)), Meta(Str(<<>>))},
              b2 \in {NoMeta, Meta(Undefined), Meta(Str(SignIn))},
              b3 \in {NoMeta, Meta(Undefined)}, a1 \in {NoMeta, Meta(Str(SignUp))}}

\* the hooks option of the provider's configuration
HookOptions ==
    {Undefined, Null}
    \cup {[tag |-> "object", before |-> b, after |-> a] :
              b \in {Undefined, Fn("return"), Fn("throw")},
              a \in {Undefined, Fn("return")}}

HookCalls ==
    {[entry |-> "forRoot", arg1 |-> AuthOf(Undefined, Undefined, hooks),
      arg2 |-> Undefined] : hooks \in HookOptions}
    \cup {[entry |-> "forRoot",
           arg1 |-> [tag |-> "object", auth |-> AuthOf(Undefined, Undefined, hooks),
                     disableControllers |-> dc],
           arg2 |-> Undefined] :
              hooks \in HookOptions, dc \in {Undefined, Bool(TRUE)}}

NextHooks ==
    \/ ForRoot(HookCalls, ProviderLists)
    \/ Configure
    \/ OnModuleInit
    \/ ProviderRequest({Str(SignIn), Str(SignUp)})

SpecHooks == InitOver({}, Peers) /\ [][NextHooks]_vars

----------------------------------------------------------------------------
(* The hooks claim *)

\* the hooks option as the application configured it
ConfiguredHooks == nest.options.auth.options.hooks

HookProvidersExist == \E k \in 1..Len(nest.providers) : nest.providers[k].hook

\* the methods of the @Hook providers, in registration order
RECURSIVE HookMethods(_)
HookMethods(providers) ==
    IF providers = <<>> THEN <<>>
    ELSE (IF Head(providers).hook THEN Head(providers).methods ELSE <<>>)
             \o HookMethods(Tail(providers))

\* a method declares no path for a hook type, or the request's path
Applies(method, hookType, path) ==
    \/ method[hookType].path = Undefined
    \/ method[hookType].path = Str(<<>>)
    \/ method[hookType].path = path

\* what should run on a request: the configured hook of the type, then the
\* registered methods of the type that apply, in registration order
DueToRun(hookType, path) ==
    LET original == IF ConfiguredHooks.tag = "object"
                       /\ ConfiguredHooks[hookType].tag = "function"
                    THEN <<[name |-> "originalHook",
                            throws |-> ConfiguredHooks[hookType].does = "throw"]>>
                    ELSE <<>>
        methods == SelectSeq(HookMethods(nest.providers),
                             LAMBDA m : m[hookType].tag = "meta"
                                        /\ Applies(m, hookType, path))
    IN  original \o [k \in 1..Len(methods) |->
                         [name |-> methods[k].name, throws |-> methods[k].throws]]

\* a run stops at the first function that throws
RECURSIVE UpToFirstThrow(_)
UpToFirstThrow(due) ==
    IF due = <<>> THEN <<>>
    ELSE IF Head(due).throws THEN <<Head(due).name>>
    ELSE <<Head(due).name>> \o UpToFirstThrow(Tail(due))

ServedHook == served.applied /\ served.kind = "hook"

\* on a provider request: the configured hook first, then the registered methods
\* that apply, in registration order, each once, up to the first that throws
HooksRunInOrder ==
    ServedHook =>
        LET due == DueToRun(served.hookType, served.path)
        IN  /\ served.ran = UpToFirstThrow(due)
            /\ served.threw <=> \E k \in 1..Len(due) : due[k].throws

\* @Hook providers without a hooks object: onModuleInit throws, installs nothing
ThrowsWithoutHooksObject ==
    (nest.phase \in {"ready", "failed"} /\ nest.error # FunctionBasedTrustedOrigins
        /\ HookProvidersExist /\ ConfiguredHooks.tag # "object")
       => /\ nest.phase = "failed"
          /\ nest.error = HooksNotConfigured
          /\ nest.hooks = ConfiguredHooks

\* C25: once onModuleInit has registered the hook methods of all @Hook providers,
\* every provider request runs the originally configured hook of the type first,
\* then the registered methods of that type in registration order, each exactly
\* once and only when it declares no path or its path equals the request's path;
\* and if @Hook providers exist while the hooks option is not an object,
\* onModuleInit throws and installs nothing.
C25_HooksWrapInOrder ==
    /\ HooksRunInOrder
    /\ ThrowsWithoutHooksObject
====
